---- MODULE Spec2Model ----
(***************************************************************************)
(* Model of the document question-answering repository.                   *)
(*                                                                         *)
(* One deployment is modelled per entry point:                             *)
(*   "app"      : src/app.py driving src/rag_system.py (RAGSystem)         *)
(*   "backend"  : src/backend/ (SimpleRAG, VectorStore, TextFileManager),  *)
(*                driven by src/test_backend.py and its module functions   *)
(*   "pipeline" : src/main.py (RAGPipeline) under src/frontend/app.py      *)
(*   "chunker"  : the text splitters, called as pure functions             *)
(*                                                                         *)
(* Python strings are sequences of tokens.  A user message is a sequence   *)
(* of one-character strings; a prompt is a sequence of pieces (records).   *)
(* A step of the model is one whole handler run (one Streamlit script run  *)
(* or one call of a module-level function); what the run observed is kept  *)
(* in the variable last.                                                   *)
(***************************************************************************)
EXTENDS Integers, Sequences, FiniteSets, TLC

VARIABLES
    deployment,             \* which entry point runs
    chromadb_build,         \* which chromadb release is installed
    python_build,           \* how the interpreter evaluates annotations
    sessions,               \* the browser sessions that are open
    call,                   \* the arguments of the pure function under check
    \* ---- src/rag_system.py : the one cached RAGSystem instance
    collection,             \* self.collection: set of stored chunk records
    rag_current_file_name,  \* self.current_file_name (None while unset)
    \* ---- src/app.py
    rag_system,             \* the st.cache_resource entry of get_rag_system
    chats,                  \* the files under chats/: name -> content
    data,                   \* files under data/: name -> content or None
    uploaded_file,          \* per session: the file_uploader widget value
    current_file_name,      \* per session: st.session_state.current_file_name
    messages,               \* per session: st.session_state.messages
    rerun,                  \* per session: st.rerun() was called, run pending
    \* ---- src/backend/
    rag_instance,           \* _rag_instance: None or the SimpleRAG object
    vector_store,           \* the Chroma store behind VectorStore
    memory,                 \* ConversationBufferMemory of the instance
    objects,                \* number of SimpleRAG objects constructed so far
    \* ---- src/main.py
    main_module,            \* the outcome of `import main`
    docs_metadata,          \* uploaded_documents.json: doc_id -> filename
    doc_collections,        \* the Chroma collections, by collection name
    chat_histories,         \* chat_histories.json: doc_id -> list of messages
    save_calls,             \* per caller: the save_message call in progress
    passed,                 \* the arguments of every save_message call made
    \* ---- src/frontend/app.py
    active_doc_id,          \* per session: st.session_state.active_doc_id
    session_messages,       \* per session: st.session_state.messages
    \* ---- observation of the last handler run
    last

vars == <<deployment, chromadb_build, python_build, sessions, call,
          collection, rag_current_file_name, rag_system, chats, data,
          uploaded_file, current_file_name, messages, rerun,
          rag_instance, vector_store, memory, objects,
          main_module, docs_metadata, doc_collections, chat_histories,
          save_calls, passed, active_doc_id, session_messages, last>>

\* chosen when the model starts and never changed
fixedVars == <<deployment, chromadb_build, python_build, sessions, call>>

appVars == <<collection, rag_current_file_name, rag_system, chats, data,
             uploaded_file, current_file_name, messages, rerun>>

backendVars == <<rag_instance, vector_store, memory, objects>>

\* the files of chat histories and the calls that write them
historyVars == <<chat_histories, save_calls, passed>>

\* the session state of src/frontend/app.py
frontendVars == <<active_doc_id, session_messages>>

pipelineVars == <<main_module, docs_metadata, doc_collections, historyVars,
                  frontendVars>>

---------------------------------------------------------------------------
(* Bounds of the model *)

\* longest message history a session builds
MaxMsgs == 2
\* number of save_message calls made in all
MaxSaves == 3
\* number of chunks of the largest document (two embedding batches)
BigDoc == 65
\* number of different rankings the similarity search may produce
MaxSeed == 1
\* number of SimpleRAG objects a run constructs
MaxObjects == 2

\* longest text given to a splitter
MaxText == 3

---------------------------------------------------------------------------
(* Values *)

None == "None"

Sessions == {"s1", "s2"}

FileNames == {"a.txt", "b.txt"}

\* document contents: an empty file, a two-chunk text, a text of BigDoc chunks
Contents == {"empty", "small", "big"}

\* the files a user uploads
Uploads ==
    { [name |-> "a.txt", content |-> c] : c \in Contents }
    \cup { [name |-> "b.txt", content |-> "small"] }

\* the uploads of at most one embedding batch
SmallUploads == {uf \in Uploads : uf.content # "big"}

\* what the user can type in st.chat_input (never the empty string: the
\* walrus test of the handler is false for it)
UserMessages ==
    { <<" ">>, <<"h", "i">>, <<"N", "o", "w">> }

\* the instants datetime.now() can give
Times == {"t1"}

\* the names Save Current Chat can give a file: chats/{document}_{timestamp}.json
ChatFiles == FileNames \X Times

\* an empty chats/ directory
NoChats == <<>>

\* no pure function is under check
\* an environment without CHUNK_SIZE, CHUNK_OVERLAP and TEXT_SEPARATOR; a set
\* variable is a one-element sequence holding its value
NoEnv == [CHUNK_SIZE |-> <<>>, CHUNK_OVERLAP |-> <<>>, TEXT_SEPARATOR |-> <<>>]

\* no pure function is under check; an argument that is not passed is <<>>,
\* an argument n is <<n>>
NoCall ==
    [fn |-> "none", text |-> <<>>, chunk_size |-> <<>>, chunk_overlap |-> <<>>,
     env |-> NoEnv, validates_sign |-> FALSE]

---------------------------------------------------------------------------
(* Python string helpers, computed on sequences of one-character strings *)

UpperToLower ==
    [A |-> "a", B |-> "b", C |-> "c", D |-> "d", E |-> "e", F |-> "f",
     G |-> "g", H |-> "h", I |-> "i", J |-> "j", K |-> "k", L |-> "l",
     M |-> "m", N |-> "n", O |-> "o", P |-> "p", Q |-> "q", R |-> "r",
     S |-> "s", T |-> "t", U |-> "u", V |-> "v", W |-> "w", X |-> "x",
     Y |-> "y", Z |-> "z"]

\* str.lower()
lower(str) ==
    [i \in 1..Len(str) |->
        IF str[i] \in DOMAIN UpperToLower THEN UpperToLower[str[i]] ELSE str[i]]

\* word in str
contains(str, word) ==
    \E i \in 1..(Len(str) - Len(word) + 1) :
        SubSeq(str, i, i + Len(word) - 1) = word

Whitespace == {" ", "\n", "\t"}

\* not str or not str.strip()
is_blank(str) == \A i \in 1..Len(str) : str[i] \in Whitespace

\* the keyword list of generate_response
TimeWords ==
    { <<"t", "i", "m", "e">>, <<"w", "h", "e", "n">>, <<"d", "a", "t", "e">>,
      <<"t", "o", "d", "a", "y">>, <<"n", "o", "w">> }

needs_time(user_message) ==
    \E word \in TimeWords : contains(lower(user_message), word)

---------------------------------------------------------------------------
(* src/rag_system.py : RAGSystem.__init__ *)

\* the keys RAGSystem.__init__ and app.py require in config
RequiredKeys == {"GROQ_API_KEY", "GROQ_MODEL", "MISTRALAI_API_KEY"}

\* the state of the ChromaDB server while RAGSystem is constructed: reachable,
\* unreachable, or lost between get_or_create_collection and the heartbeat
ServerStates == {"up", "down", "down_at_heartbeat"}

\* chromadb.HttpClient(host, port), line 62: a current chromadb contacts the
\* server in the constructor and raises ValueError("Could not connect to a
\* Chroma server"); a legacy one connects on first use
HttpClient(server) ==
    IF server = "down" /\ chromadb_build = "current" THEN "ValueError" ELSE "none"

\* chroma_client.get_or_create_collection(...), line 68: the HTTP library's own
\* connection error, which is no subclass of the builtin ConnectionError
get_or_create_collection(server) ==
    IF server = "down" THEN "TransportError" ELSE "none"

\* _ensure_chroma_connection, lines 77-82
ensure_chroma_connection(server) ==
    IF server # "up" THEN "ConnectionError" ELSE "none"

\* RAGSystem.__init__(config): what it raises, and the line that raises
RAGSystem_init(config, server) ==
    IF "GROQ_API_KEY" \notin config THEN [raised |-> "ValueError", line |-> 28]
    ELSE IF "GROQ_MODEL" \notin config THEN [raised |-> "ValueError", line |-> 30]
    ELSE IF "MISTRALAI_API_KEY" \notin config
    THEN [raised |-> "ValueError", line |-> 32]
    ELSE IF HttpClient(server) # "none"
    THEN [raised |-> HttpClient(server), line |-> 62]
    ELSE IF get_or_create_collection(server) # "none"
    THEN [raised |-> get_or_create_collection(server), line |-> 68]
    ELSE IF ensure_chroma_connection(server) # "none"
    THEN [raised |-> ensure_chroma_connection(server), line |-> 82]
    ELSE [raised |-> "none", line |-> 75]

---------------------------------------------------------------------------
(* src/rag_system.py : chunking, the collection, process_document *)

\* number of chunks the splitter cuts a content into
NumChunks(content) ==
    CASE content = "empty" -> 0
      [] content = "small" -> 2
      [] content = "big"   -> BigDoc

\* self.text_splitter.split_documents(documents): the chunk texts, in order
split_documents(content) ==
    [i \in 1..NumChunks(content) |-> <<content, i - 1>>]

\* the entry process_document prepares for chunk i (0-based) of file_name
ChunkRecord(file_name, i, page_content) ==
    [id |-> <<file_name, i>>, source_file |-> file_name, chunk_index |-> i,
     document |-> page_content]

Ids(coll) == {r.id : r \in coll}

EmbedBatchSize == 64

\* total_batches = (len(texts) + 63) // 64
total_batches(n) == (n + (EmbedBatchSize - 1)) \div EmbedBatchSize

\* collection.add(...): raises on a store failure; for ids already present the
\* installed chromadb either raises or keeps the stored entry and skips the new
collection_add(coll, new, addRaises, dupIgnored) ==
    IF addRaises THEN [collection |-> coll, raised |-> "StoreError"]
    ELSE IF Ids(coll) \cap Ids(new) # {}
         THEN IF dupIgnored
              THEN [collection |-> coll \cup {r \in new : r.id \notin Ids(coll)},
                    raised |-> "none"]
              ELSE [collection |-> coll, raised |-> "DuplicateIDError"]
         ELSE [collection |-> coll \cup new, raised |-> "none"]

\* the batch loop with the callback given the 0-based batch number
RECURSIVE EmbedLogZeroBased(_, _)
EmbedLogZeroBased(upto, total) ==
    IF upto = 0 THEN <<>>
    ELSE EmbedLogZeroBased(upto - 1, total)
         \o << <<"embed", upto>>, <<"callback", upto - 1, total>> >>

\* the events of batches 1..upto: embed, then the progress callback
RECURSIVE EmbedLog(_, _)
EmbedLog(upto, total) ==
    IF upto = 0 THEN <<>>
    ELSE EmbedLog(upto - 1, total)
         \o << <<"embed", upto>>, <<"callback", upto, total>> >>

\* the failures the environment can inject into one process_document run:
\* the loader, the get/delete step, one embedding batch (0: none), the add
\* call; dupIgnored tells what the installed chromadb does with a known id
ProcessEnvs(content) ==
    { [loadRaises |-> TRUE, deleteRaises |-> FALSE, embedFail |-> 0,
       addRaises |-> FALSE, dupIgnored |-> chromadb_build = "current"] }
    \cup
    { [loadRaises |-> FALSE, deleteRaises |-> d, embedFail |-> e,
       addRaises |-> a, dupIgnored |-> chromadb_build = "current"] :
         d \in BOOLEAN,
         e \in 0..total_batches(NumChunks(content)),
         a \in {x \in BOOLEAN : x => NumChunks(content) > 0} }

\* RAGSystem.process_document(file_path, file_name, progress_callback)
\* kept: the entries that were stored before the call and survived its delete step
process_document(coll, file_name, content, env) ==
    LET all_splits == split_documents(content)
        n == Len(all_splits)
        afterDelete == IF env.deleteRaises \/ coll = {} THEN coll ELSE {}
        delLog == IF env.deleteRaises THEN << <<"get_or_delete_raised">> >>
                  ELSE IF coll = {} THEN << <<"get">> >>
                  ELSE << <<"get">>, <<"delete">> >>
        new == {ChunkRecord(file_name, i - 1, all_splits[i]) : i \in 1..n}
        total == total_batches(n)
        added == collection_add(afterDelete, new, env.addRaises, env.dupIgnored)
    IN  IF env.loadRaises
        THEN [collection |-> coll, raised |-> "LoadError", kept |-> coll,
              log |-> <<>>, sets_name |-> FALSE, chunks |-> -1]
        ELSE IF env.embedFail > 0
        THEN [collection |-> afterDelete, raised |-> "EmbeddingError",
              kept |-> afterDelete,
              log |-> delLog \o EmbedLog(env.embedFail - 1, total)
                      \o << <<"embed_raised", env.embedFail>> >>,
              sets_name |-> FALSE, chunks |-> n]
        ELSE IF n = 0
        THEN [collection |-> afterDelete, raised |-> "none", kept |-> afterDelete,
              log |-> delLog, sets_name |-> TRUE, chunks |-> n]
        ELSE [collection |-> added.collection, raised |-> added.raised,
              kept |-> afterDelete,
              log |-> delLog \o EmbedLog(total, total) \o << <<"add">> >>,
              sets_name |-> added.raised = "none", chunks |-> n]

---------------------------------------------------------------------------
(* src/rag_system.py : search_document, generate_response *)

\* pieces of a prompt string
Lit(x) == [lit |-> x]
Passage(doc) == [passage |-> doc]
Now(t) == [time |-> t]

\* a Python value passed as the SystemMessage argument: a str, or the
\* langchain class of that name
PyStr(val) == [type |-> "str", val |-> val]
SystemMessageClass == [type |-> "class", val |-> <<>>]
is_callable(v) == v.type = "class"

\* SystemMessage_content of app.py
SystemMessage_content == PyStr(<< Lit("SystemMessage_content") >>)

TopK == 3

\* the top_k entries of `matching` nearest to the query, nearest first; the
\* embedding decides the ranking, `seed` picks one: by chunk index from seed on
RECURSIVE Nearest(_, _, _, _)
Nearest(matching, seed, scanned, k) ==
    IF k = 0 \/ scanned = BigDoc + 2 THEN <<>>
    ELSE LET i == (seed + scanned) % (BigDoc + 2)
             hit == {r \in matching : r.chunk_index = i}
         IN  IF hit = {} THEN Nearest(matching, seed, scanned + 1, k)
             ELSE << CHOOSE r \in hit : TRUE >>
                  \o Nearest(matching, seed, scanned + 1, k - 1)

\* the query without its where clause
WhereUnfiltered(coll, file_name) == coll

\* collection.query(query_texts=[query], n_results=top_k, where={"source_file": f})

where_source_file(coll, file_name) == {r \in coll : r.source_file = file_name}

\* RAGSystem.search_document(query, top_k)
search_document(query, top_k, coll, cfn, env) ==
    IF env.queryRaises \/ cfn = None
    THEN [queried |-> TRUE, raised_inside |-> TRUE, documents |-> <<>>,
          ids |-> <<>>]
    ELSE LET results == Nearest(where_source_file(coll, cfn), env.seed, 0, top_k)
         IN  [queried |-> TRUE, raised_inside |-> FALSE,
              documents |-> [i \in 1..Len(results) |-> results[i].document],
              ids |-> [i \in 1..Len(results) |-> results[i].id]]

\* "\n\n".join(relevant_chunks)
RECURSIVE join(_)
join(chunks) ==
    IF chunks = <<>> THEN <<>>
    ELSE IF Len(chunks) = 1 THEN << Passage(chunks[1]) >>
    ELSE << Passage(chunks[1]), Lit("\n\n") >> \o join(Tail(chunks))

\* the prompt with the knowledge-base section appended even without passages
PromptAlwaysWithContext(user_message, relevant_chunks, SystemMessage, now) ==
    LET withContext ==
            SystemMessage.val
            \o << Lit("\n\nHere is relevant information from the knowledge base:\n") >>
            \o join(relevant_chunks)
            \o << Lit("\n\nUse this information to answer the user's question. Prioritize information from the knowledge base.") >>
    IN  IF needs_time(user_message)
        THEN << Lit("Current time: "), Now(now), Lit("\n") >> \o withContext
        ELSE withContext

\* lines 182-192: the content of the system prompt
enhanced_system_prompt(user_message, relevant_chunks, SystemMessage, now) ==
    LET withContext ==
            IF relevant_chunks # <<>>
            THEN SystemMessage.val
                 \o << Lit("\n\nHere is relevant information from the knowledge base:\n") >>
                 \o join(relevant_chunks)
                 \o << Lit("\n\nUse this information to answer the user's question. Prioritize information from the knowledge base.") >>
            ELSE SystemMessage.val
    IN  IF needs_time(user_message)
        THEN << Lit("Current time: "), Now(now), Lit("\n") >> \o withContext
        ELSE withContext

LLMAnswers == {"answer"}

ChatEnvs ==
    [queryRaises : BOOLEAN, seed : 0..MaxSeed, llmRaises : BOOLEAN,
     llmContent : LLMAnswers, now : Times]

\* RAGSystem.generate_response(user_message, chat_history, SystemMessage)
\* line 197 calls the parameter SystemMessage, which hides the imported class
generate_response(user_message, chat_history, SystemMessage, coll, cfn, env) ==
    LET found == search_document(user_message, TopK, coll, cfn, env)
        relevant_chunks == found.documents
        prompt == enhanced_system_prompt(user_message, relevant_chunks,
                                         SystemMessage, env.now)
        base == [queried |-> found.queried, search_raised |-> found.raised_inside,
                 relevant_chunks |-> relevant_chunks, ids |-> found.ids,
                 prompt |-> prompt,
                 messages_for_llm |-> <<>>, llm_calls |-> 0,
                 raised |-> "none", content |-> <<>>]
    IN  IF ~is_callable(SystemMessage)
        THEN [base EXCEPT !.raised = "TypeError"]
        ELSE LET msgs == << [role |-> "SystemMessage", content |-> prompt] >>
                         \o chat_history
                         \o << [role |-> "HumanMessage", content |-> user_message] >>
             IN  IF env.llmRaises
                 THEN [base EXCEPT !.messages_for_llm = msgs, !.llm_calls = 1,
                                   !.raised = "LLMError"]
                 ELSE [base EXCEPT !.messages_for_llm = msgs, !.llm_calls = 1,
                                   !.content = << env.llmContent >>]

---------------------------------------------------------------------------
(* What a handler run showed and did *)

Shown(kind, text, exc) == [kind |-> kind, text |-> text, exc |-> exc]

NoObs ==
    [op |-> "none", session |-> "-", file |-> None, raised |-> "none",
     shown |-> {}, kept |-> {}, log |-> <<>>,
     query |-> <<>>, queried |-> FALSE, search_raised |-> FALSE,
     query_failing |-> FALSE, llm_failing |-> FALSE,
     scope |-> None, passages |-> <<>>, passage_ids |-> <<>>,
     chunks |-> -1, instruction |-> <<>>, prompt |-> <<>>,
     llm_calls |-> 0, llm_content |-> <<>>, result |-> <<>>, returned |-> None,
     server |-> "up", config |-> RequiredKeys, llm_messages |-> <<>>,
     history |-> <<>>, force_reload |-> FALSE, doc_id |-> None,
     content |-> None, before |-> None, page_contents |-> <<>>, used |-> <<>>,
     chat |-> <<>>, event |-> "none", handled |-> "none", caller |-> "-"]

HumanMessage(content) == [role |-> "HumanMessage", content |-> content]
AIMessage(content) == [role |-> "AIMessage", content |-> content]

\* the fixed text of app.py line 255
AppFallback == << "Sorry, I encountered an error and couldn't generate a response." >>

---------------------------------------------------------------------------
(* src/app.py : one action per script run *)

\* the configurations the environment can hold when the app starts
Configs ==
    { RequiredKeys, RequiredKeys \ {"GROQ_API_KEY"},
      RequiredKeys \ {"MISTRALAI_API_KEY"} }

\* lines 42-70: the key checks and get_rag_system(); a RAGSystem is cached
\* only when the constructor returned
GetRagSystem(config, server) ==
    LET missing_groq_keys == {"GROQ_API_KEY", "GROQ_MODEL"} \ config
        has_mistral_config == "MISTRALAI_API_KEY" \in config
        r == RAGSystem_init(config, server)
        obs == [NoObs EXCEPT !.op = "get_rag_system", !.server = server,
                             !.config = config]
    IN  /\ deployment = "app"
        /\ rag_system = None
        /\ IF missing_groq_keys # {}
           THEN /\ rag_system' = None
                /\ last' = [obs EXCEPT !.shown =
                       {Shown("error", "Please set the following Groq keys in your .env file: {keys}", "none")}]
           ELSE IF ~has_mistral_config
           THEN /\ rag_system' = None
                /\ last' = [obs EXCEPT !.shown =
                       {Shown("error", "No valid embedding configuration found in .env.", "none")}]
           ELSE IF r.raised = "none"
           THEN /\ rag_system' = "RAGSystem"
                /\ last' = obs
           ELSE /\ rag_system' = None
                /\ last' = [obs EXCEPT
                       !.raised = r.raised,
                       !.shown =
                           CASE r.raised = "ConnectionError" ->
                                  {Shown("error", "Failed to connect to ChromaDB: {e}", r.raised)}
                             [] r.raised = "ValueError" ->
                                  {Shown("error", "Configuration Error: {e}", r.raised)}
                             [] OTHER ->
                                  {Shown("uncaught", "{traceback}", r.raised)}]
        /\ UNCHANGED <<fixedVars, collection, rag_current_file_name, chats, data,
                       uploaded_file, current_file_name, messages, rerun,
                       backendVars, pipelineVars>>

NoUpload == [name |-> None, content |-> None]

\* lines 114-116
needs_processing(s, uf) ==
    ~(current_file_name[s] = uf.name /\ data[uf.name] # None)

\* the upload handler without line 137: a failure leaves current_file_name
UploadHandlerKeepsName(s, uf, env) ==
    LET r == process_document(collection, uf.name, uf.content, env)
    IN  /\ data' = [data EXCEPT ![uf.name] = uf.content]
        /\ collection' = r.collection
        /\ rag_current_file_name' =
               IF r.sets_name THEN uf.name ELSE rag_current_file_name
        /\ current_file_name' =
               [current_file_name EXCEPT
                   ![s] = IF r.raised = "none" THEN uf.name ELSE @]
        /\ messages' =
               [messages EXCEPT ![s] = IF r.raised = "none" THEN <<>> ELSE @]
        /\ rerun' = [rerun EXCEPT ![s] = TRUE]
        /\ last' =
               [NoObs EXCEPT
                   !.op = "process_document", !.session = s, !.file = uf.name,
                   !.before = current_file_name[s],
                   !.raised = r.raised, !.kept = r.kept, !.log = r.log,
                   !.chunks = r.chunks,
                   !.shown =
                       IF r.raised = "none"
                       THEN {Shown("success", "Document ready! Chat with assistant.", "none")}
                       ELSE {Shown("error", "Error processing document: {e}", r.raised)}]

\* lines 118-139: save the upload, process it, st.rerun()
UploadHandler(s, uf, env) ==
    LET r == process_document(collection, uf.name, uf.content, env)
    IN  /\ data' = [data EXCEPT ![uf.name] = uf.content]
        /\ collection' = r.collection
        /\ rag_current_file_name' =
               IF r.sets_name THEN uf.name ELSE rag_current_file_name
        /\ current_file_name' =
               [current_file_name EXCEPT
                   ![s] = IF r.raised = "none" THEN uf.name ELSE None]
        /\ messages' =
               [messages EXCEPT ![s] = IF r.raised = "none" THEN <<>> ELSE @]
        /\ rerun' = [rerun EXCEPT ![s] = TRUE]
        /\ last' =
               [NoObs EXCEPT
                   !.op = "process_document", !.session = s, !.file = uf.name,
                   !.before = current_file_name[s],
                   !.raised = r.raised, !.kept = r.kept, !.log = r.log,
                   !.chunks = r.chunks,
                   !.shown =
                       IF r.raised = "none"
                       THEN {Shown("success", "Document ready! Chat with assistant.", "none")}
                       ELSE {Shown("error", "Error processing document: {e}", r.raised)}]

\* lines 110-141 for a run that handles nothing else
UploadBlockOnly(s, uf, op) ==
    IF uf # NoUpload /\ needs_processing(s, uf)
    THEN \E env \in ProcessEnvs(uf.content) : UploadHandler(s, uf, env)
    ELSE /\ UNCHANGED <<collection, rag_current_file_name, data,
                        current_file_name, messages>>
         /\ rerun' = [rerun EXCEPT ![s] = FALSE]
         /\ last' =
                [NoObs EXCEPT
                    !.op = op, !.session = s, !.file = uf.name,
                    !.shown =
                        IF uf # NoUpload
                        THEN {Shown("info", "Document '{name}' already loaded.", "none")}
                        ELSE {}]

\* the user puts a file into st.file_uploader
SelectFile(s, uf) ==
    /\ deployment = "app"
    /\ rag_system # None
    /\ ~rerun[s]
    /\ uploaded_file' = [uploaded_file EXCEPT ![s] = uf]
    /\ UploadBlockOnly(s, uf, "select_file")
    /\ UNCHANGED <<fixedVars, rag_system, chats, backendVars, pipelineVars>>

\* the user removes the file from st.file_uploader
RemoveFile(s) ==
    /\ deployment = "app"
    /\ rag_system # None
    /\ ~rerun[s]
    /\ uploaded_file[s] # NoUpload
    /\ uploaded_file' = [uploaded_file EXCEPT ![s] = NoUpload]
    /\ UploadBlockOnly(s, NoUpload, "remove_file")
    /\ UNCHANGED <<fixedVars, rag_system, chats, backendVars, pipelineVars>>

\* the run st.rerun() asked for
Rerun(s) ==
    /\ deployment = "app"
    /\ rag_system # None
    /\ rerun[s]
    /\ UploadBlockOnly(s, uploaded_file[s], "rerun")
    /\ UNCHANGED <<fixedVars, rag_system, chats, uploaded_file, backendVars,
                   pipelineVars>>

\* the chat input handler without its test for a loaded document
ChatInputHandlerNoGuard(s, q, env) ==
    LET g == generate_response(q, messages[s], SystemMessage_content,
                                    collection, rag_current_file_name, env)
             answer == IF g.raised = "none" THEN g.content ELSE AppFallback
         IN  /\ messages' =
                    [messages EXCEPT
                        ![s] = Append(Append(@, HumanMessage(q)), AIMessage(answer))]
             /\ rerun' = [rerun EXCEPT ![s] = TRUE]
             /\ UNCHANGED <<collection, rag_current_file_name, data,
                            current_file_name>>
             /\ last' =
                    [NoObs EXCEPT
                        !.op = "question", !.session = s, !.query = q,
                        !.file = current_file_name[s],
                        !.raised = g.raised, !.queried = g.queried,
                        !.search_raised = g.search_raised,
                        !.query_failing = env.queryRaises,
                        !.llm_failing = env.llmRaises,
                        !.scope = rag_current_file_name,
                        !.passages = g.relevant_chunks,
                        !.passage_ids = g.ids,
                        !.instruction = SystemMessage_content.val,
                        !.prompt = g.prompt,
                        !.llm_calls = g.llm_calls,
                        !.history = messages[s],
                        !.llm_messages = g.messages_for_llm,
                        !.llm_content = << env.llmContent >>,
                        !.result = g.content,
                        !.shown =
                            IF g.raised = "none"
                            THEN {Shown("write", g.content, "none")}
                            ELSE {Shown("error",
                                "An error occurred while generating response. Please check the terminal for details. Error: {e}",
                                g.raised)}]

\* the chat input handler without line 255: a failure appends no assistant
\* message
ChatInputHandlerNoFallback(s, q, env) ==
    IF current_file_name[s] = None
    THEN /\ UNCHANGED <<collection, rag_current_file_name, data,
                        current_file_name, messages, rerun>>
         /\ last' =
                [NoObs EXCEPT
                    !.op = "question", !.session = s, !.query = q,
                    !.shown = {Shown("warning",
                        "Please upload a document first to start asking questions.",
                        "none")}]
    ELSE LET g == generate_response(q, messages[s], SystemMessage_content,
                                    collection, rag_current_file_name, env)
             answer == IF g.raised = "none" THEN g.content ELSE AppFallback
         IN  /\ messages' =
                    [messages EXCEPT
                        ![s] = IF g.raised = "none"
                               THEN Append(Append(@, HumanMessage(q)),
                                           AIMessage(answer))
                               ELSE Append(@, HumanMessage(q))]
             /\ rerun' = [rerun EXCEPT ![s] = TRUE]
             /\ UNCHANGED <<collection, rag_current_file_name, data,
                            current_file_name>>
             /\ last' =
                    [NoObs EXCEPT
                        !.op = "question", !.session = s, !.query = q,
                        !.file = current_file_name[s],
                        !.raised = g.raised, !.queried = g.queried,
                        !.search_raised = g.search_raised,
                        !.query_failing = env.queryRaises,
                        !.llm_failing = env.llmRaises,
                        !.scope = rag_current_file_name,
                        !.passages = g.relevant_chunks,
                        !.passage_ids = g.ids,
                        !.instruction = SystemMessage_content.val,
                        !.prompt = g.prompt,
                        !.llm_calls = g.llm_calls,
                        !.history = messages[s],
                        !.llm_messages = g.messages_for_llm,
                        !.llm_content = << env.llmContent >>,
                        !.result = g.content,
                        !.shown =
                            IF g.raised = "none"
                            THEN {Shown("write", g.content, "none")}
                            ELSE {Shown("error",
                                "An error occurred while generating response. Please check the terminal for details. Error: {e}",
                                g.raised)}]

\* lines 226-257: the chat input handler
ChatInputHandler(s, q, env) ==
    IF current_file_name[s] = None
    THEN /\ UNCHANGED <<collection, rag_current_file_name, data,
                        current_file_name, messages, rerun>>
         /\ last' =
                [NoObs EXCEPT
                    !.op = "question", !.session = s, !.query = q,
                    !.shown = {Shown("warning",
                        "Please upload a document first to start asking questions.",
                        "none")}]
    ELSE LET g == generate_response(q, messages[s], SystemMessage_content,
                                    collection, rag_current_file_name, env)
             answer == IF g.raised = "none" THEN g.content ELSE AppFallback
         IN  /\ messages' =
                    [messages EXCEPT
                        ![s] = Append(Append(@, HumanMessage(q)), AIMessage(answer))]
             /\ rerun' = [rerun EXCEPT ![s] = TRUE]
             /\ UNCHANGED <<collection, rag_current_file_name, data,
                            current_file_name>>
             /\ last' =
                    [NoObs EXCEPT
                        !.op = "question", !.session = s, !.query = q,
                        !.file = current_file_name[s],
                        !.raised = g.raised, !.queried = g.queried,
                        !.search_raised = g.search_raised,
                        !.query_failing = env.queryRaises,
                        !.llm_failing = env.llmRaises,
                        !.scope = rag_current_file_name,
                        !.passages = g.relevant_chunks,
                        !.passage_ids = g.ids,
                        !.instruction = SystemMessage_content.val,
                        !.prompt = g.prompt,
                        !.llm_calls = g.llm_calls,
                        !.history = messages[s],
                        !.llm_messages = g.messages_for_llm,
                        !.llm_content = << env.llmContent >>,
                        !.result = g.content,
                        !.shown =
                            IF g.raised = "none"
                            THEN {Shown("write", g.content, "none")}
                            ELSE {Shown("error",
                                "An error occurred while generating response. Please check the terminal for details. Error: {e}",
                                g.raised)}]

\* the user submits a question in st.chat_input
AskQuestion(s, q) ==
    /\ deployment = "app"
    /\ rag_system # None
    /\ ~rerun[s]
    /\ current_file_name[s] # None => Len(messages[s]) + 2 <= MaxMsgs
    /\ IF uploaded_file[s] # NoUpload /\ needs_processing(s, uploaded_file[s])
       THEN \E env \in ProcessEnvs(uploaded_file[s].content) :
                UploadHandler(s, uploaded_file[s], env)
       ELSE \E env \in ChatEnvs : ChatInputHandler(s, q, env)
    /\ UNCHANGED <<fixedVars, rag_system, chats, uploaded_file, backendVars,
                   pipelineVars>>

\* lines 189-192: the Clear Current Chat History button
ClearChat(s) ==
    /\ deployment = "app"
    /\ rag_system # None
    /\ ~rerun[s]
    /\ IF uploaded_file[s] # NoUpload /\ needs_processing(s, uploaded_file[s])
       THEN \E env \in ProcessEnvs(uploaded_file[s].content) :
                UploadHandler(s, uploaded_file[s], env)
       ELSE /\ messages' = [messages EXCEPT ![s] = <<>>]
            /\ UNCHANGED <<collection, rag_current_file_name, data,
                           current_file_name, rerun>>
            /\ last' =
                   [NoObs EXCEPT
                       !.op = "clear_chat", !.session = s,
                       !.shown = {Shown("success", "Chat history cleared!", "none")}]
    /\ UNCHANGED <<fixedVars, rag_system, chats, uploaded_file, backendVars,
                   pipelineVars>>

\* line 185: the entry json.dump writes for a message
to_json(m) == [role |-> m.role, content |-> m.content]

\* line 169: the message built from an entry of a chat file
from_json(d) ==
    IF d.role = "HumanMessage" THEN HumanMessage(d.content)
    ELSE AIMessage(d.content)

\* lines 177-187: the Save Current Chat button, shown while the session has
\* messages and a document
SaveChat(s, now) ==
    /\ deployment = "app"
    /\ rag_system # None
    /\ ~rerun[s]
    /\ messages[s] # <<>>
    /\ current_file_name[s] # None
    /\ IF uploaded_file[s] # NoUpload /\ needs_processing(s, uploaded_file[s])
       THEN /\ \E env \in ProcessEnvs(uploaded_file[s].content) :
                   UploadHandler(s, uploaded_file[s], env)
            /\ chats' = chats
       ELSE /\ chats' =
                   [f \in DOMAIN chats \cup {<<current_file_name[s], now>>} |->
                       IF f = <<current_file_name[s], now>>
                       THEN [document_name |-> current_file_name[s],
                             messages |-> [i \in 1..Len(messages[s]) |->
                                              to_json(messages[s][i])]]
                       ELSE chats[f]]
            /\ UNCHANGED <<collection, rag_current_file_name, data,
                           current_file_name, messages, rerun>>
            /\ last' =
                   [NoObs EXCEPT
                       !.op = "save_chat", !.session = s,
                       !.file = current_file_name[s],
                       !.chat = <<current_file_name[s], now>>,
                       !.shown = {Shown("success", "Chat saved as {filename}", "none")}]
    /\ UNCHANGED <<fixedVars, rag_system, uploaded_file, backendVars, pipelineVars>>

\* lines 147-171: the Load Chat button on the selected chat file
LoadChatHandler(s, selected_chat, env) ==
    LET chat_data == chats[selected_chat]
        doc_name == chat_data.document_name
        process == current_file_name[s] # doc_name /\ data[doc_name] # None
        r == process_document(collection, doc_name, data[doc_name], env)
        loaded == [i \in 1..Len(chat_data.messages) |->
                      from_json(chat_data.messages[i])]
    IN  /\ collection' = IF process THEN r.collection ELSE collection
        /\ rag_current_file_name' =
               IF process /\ r.sets_name THEN doc_name ELSE rag_current_file_name
        /\ current_file_name' =
               [current_file_name EXCEPT
                   ![s] = IF ~process THEN @
                          ELSE IF r.raised = "none" THEN doc_name ELSE None]
        /\ messages' = [messages EXCEPT ![s] = loaded]
        /\ rerun' = [rerun EXCEPT ![s] = TRUE]
        /\ UNCHANGED <<data, chats>>
        /\ last' =
               [NoObs EXCEPT
                   !.op = "load_chat", !.session = s, !.file = doc_name,
                   !.chat = selected_chat,
                   !.before = current_file_name[s],
                   !.raised = IF process THEN r.raised ELSE "none",
                   !.kept = IF process THEN r.kept ELSE {},
                   !.log = IF process THEN r.log ELSE <<>>,
                   !.chunks = IF process THEN r.chunks ELSE -1,
                   !.shown =
                       {Shown("success", "Loaded chat for document: {doc_name}", "none")}
                       \cup IF process /\ r.raised # "none"
                            THEN {Shown("error", "Error loading document: {e}", r.raised)}
                            ELSE {}]

\* the user selects a chat file and presses Load Chat
LoadChat(s, selected_chat) ==
    /\ deployment = "app"
    /\ rag_system # None
    /\ ~rerun[s]
    /\ selected_chat \in DOMAIN chats
    /\ IF uploaded_file[s] # NoUpload /\ needs_processing(s, uploaded_file[s])
       THEN /\ \E env \in ProcessEnvs(uploaded_file[s].content) :
                   UploadHandler(s, uploaded_file[s], env)
            /\ chats' = chats
       ELSE LET doc_name == chats[selected_chat].document_name
            IN  \E env \in ProcessEnvs(IF data[doc_name] = None THEN "empty"
                                        ELSE data[doc_name]) :
                    LoadChatHandler(s, selected_chat, env)
    /\ UNCHANGED <<fixedVars, rag_system, uploaded_file, backendVars, pipelineVars>>

\* lines 172-175: the Delete Chat button on the selected chat file
DeleteChat(s, selected_chat) ==
    /\ deployment = "app"
    /\ rag_system # None
    /\ ~rerun[s]
    /\ selected_chat \in DOMAIN chats
    /\ IF uploaded_file[s] # NoUpload /\ needs_processing(s, uploaded_file[s])
       THEN /\ \E env \in ProcessEnvs(uploaded_file[s].content) :
                   UploadHandler(s, uploaded_file[s], env)
            /\ chats' = chats
       ELSE /\ chats' = [f \in DOMAIN chats \ {selected_chat} |-> chats[f]]
            /\ rerun' = [rerun EXCEPT ![s] = TRUE]
            /\ UNCHANGED <<collection, rag_current_file_name, data,
                           current_file_name, messages>>
            /\ last' =
                   [NoObs EXCEPT
                       !.op = "delete_chat", !.session = s,
                       !.shown = {Shown("success", "Deleted chat: {selected_chat}", "none")}]
    /\ UNCHANGED <<fixedVars, rag_system, uploaded_file, backendVars, pipelineVars>>

---------------------------------------------------------------------------
(* src/backend/ : TextFileManager, VectorStore, SimpleRAG *)

\* TextFileManager.process_text_content_to_chunks: blank text gives no chunk
process_text_content_to_chunks(text_content) ==
    IF text_content = "empty" THEN <<>> ELSE split_documents(text_content)

\* TextFileManager.load_and_split: the chunks of every .txt file of the data directory
load_and_split(dataDir) ==
    UNION { {ChunkRecord(f, i - 1, split_documents(dataDir[f])[i]) :
                i \in 1..NumChunks(dataDir[f])} :
            f \in {g \in FileNames : dataDir[g] # None} }

\* VectorStore.clear_vector_store: collection.delete() without arguments empties
\* the collection on a legacy chromadb and raises ValueError on a current one
clear_vector_store(store) ==
    IF chromadb_build = "legacy"
    THEN [store |-> {}, raised |-> "none"]
    ELSE [store |-> store, raised |-> "ValueError"]

\* VectorStore.add_documents(documents) -> bool
add_documents(store, documents, addRaises) ==
    IF documents = {} THEN [store |-> store, returned |-> FALSE]
    ELSE IF addRaises THEN [store |-> store, returned |-> FALSE]
    ELSE [store |-> store \cup documents, returned |-> TRUE]

\* VectorStore.get_document_count
get_document_count(store) == Cardinality(store)

\* SimpleRAG.load_documents() -> bool
\* log: the calls that chunk (load_and_split) and embed and store (add_documents)
load_documents(store, dataDir, env) ==
    IF get_document_count(store) > 0
    THEN [store |-> store, returned |-> TRUE, raised |-> "none", log |-> <<>>]
    ELSE IF env.splitRaises
    THEN [store |-> store, returned |-> FALSE, raised |-> "ValueError",
          log |-> << "load_and_split" >>]
    ELSE LET documents == load_and_split(dataDir)
         IN  IF documents = {}
             THEN [store |-> store, returned |-> FALSE, raised |-> "none",
                   log |-> << "load_and_split" >>]
             ELSE LET a == add_documents(store, documents, env.addRaises)
                  IN  [store |-> a.store, returned |-> a.returned,
                       raised |-> "none",
                       log |-> << "load_and_split", "add_documents" >>]

\* load_and_index_documents without its test of the document count
LoadAndIndexAlways(store, dataDir, force_reload, env) ==
    IF env.splitRaises
    THEN [store |-> store, returned |-> FALSE, log |-> << "load_and_split" >>]
    ELSE LET documents == load_and_split(dataDir)
         IN  IF documents = {}
             THEN [store |-> store, returned |-> FALSE,
                   log |-> << "load_and_split" >>]
             ELSE LET a == add_documents(store, documents, env.addRaises)
                  IN  [store |-> a.store, returned |-> a.returned,
                       log |-> << "load_and_split", "add_documents" >>]

\* VectorStore.load_and_index_documents(force_reload) -> bool; every
\* exception is caught and gives False
load_and_index_documents(store, dataDir, force_reload, env) ==
    IF ~force_reload /\ get_document_count(store) > 0
    THEN [store |-> store, returned |-> TRUE, log |-> <<>>]
    ELSE IF env.splitRaises
    THEN [store |-> store, returned |-> FALSE, log |-> << "load_and_split" >>]
    ELSE LET documents == load_and_split(dataDir)
         IN  IF documents = {}
             THEN [store |-> store, returned |-> FALSE,
                   log |-> << "load_and_split" >>]
             ELSE LET a == add_documents(store, documents, env.addRaises)
                  IN  [store |-> a.store, returned |-> a.returned,
                       log |-> << "load_and_split", "add_documents" >>]

\* the SimpleRAG objects, in the order of their construction
ObjectName == << "SimpleRAG_1", "SimpleRAG_2", "SimpleRAG_3", "SimpleRAG_4" >>

\* get_rag_instance(): the module-level singleton; a new object is the next
\* of ObjectName, and `fresh` tells that the call constructed it
get_rag_instance(inst, store, dataDir, env) ==
    IF inst # None
    THEN [instance |-> inst, store |-> store, raised |-> "none", fresh |-> FALSE]
    ELSE IF env.initRaises
    THEN [instance |-> None, store |-> store, raised |-> "InitError",
          fresh |-> FALSE]
    ELSE IF get_document_count(store) = 0
    THEN LET l == load_documents(store, dataDir, env)
         IN  [instance |-> ObjectName[objects + 1], store |-> l.store, raised |-> l.raised,
              fresh |-> TRUE]
    ELSE [instance |-> ObjectName[objects + 1], store |-> store, raised |-> "none",
          fresh |-> TRUE]

\* SimpleRAG.load_uploaded_document(file_content, filename) -> bool
load_uploaded_document(store, file_content, filename, env) ==
    LET cleared == clear_vector_store(store)
        chunks == process_text_content_to_chunks(file_content)
        documents == {ChunkRecord(filename, i - 1, chunks[i]) : i \in 1..Len(chunks)}
        added == add_documents(cleared.store, documents, env.addRaises)
    IN  IF cleared.raised # "none"
        THEN [store |-> store, returned |-> FALSE, chunks |-> -1]
        ELSE IF chunks = <<>>
        THEN [store |-> cleared.store, returned |-> FALSE, chunks |-> 0]
        ELSE [store |-> added.store, returned |-> added.returned,
              chunks |-> Len(chunks)]

BackendFallback == << "Sorry, I encountered an error. Please try again." >>
SystemUnavailable == << "System unavailable. Please try again later." >>

RetrievalK == 6

\* SimpleRAG.chat(question) -> str
chat(store, mem, question, env) ==
    IF env.queryRaises \/ env.llmRaises
    THEN [result |-> BackendFallback, memory |-> mem, raised |-> "none",
          raised_inside |-> TRUE, passages |-> <<>>,
          llm_calls |-> IF env.queryRaises /\ mem = <<>> THEN 0 ELSE 1]
    ELSE [result |-> << env.llmContent >>,
          memory |-> mem \o << HumanMessage(question),
                               AIMessage(<< env.llmContent >>) >>,
          raised |-> "none", raised_inside |-> FALSE,
          passages |-> LET results == Nearest(store, env.seed, 0, RetrievalK)
                       IN  [i \in 1..Len(results) |-> results[i].document],
          llm_calls |-> IF mem = <<>> THEN 1 ELSE 2]

\* VectorStore.search(query): None for a blank query, else the similarity search
search(store, query, env) ==
    IF query = <<>> \/ is_blank(query)
    THEN [queried |-> FALSE, returned |-> None, documents |-> <<>>, raised |-> "none"]
    ELSE IF env.queryRaises
    THEN [queried |-> TRUE, returned |-> None, documents |-> <<>>,
          raised |-> "StoreError"]
    ELSE [queried |-> TRUE, returned |-> "list",
          documents |-> LET results == Nearest(store, env.seed, 0, RetrievalK)
                        IN  [i \in 1..Len(results) |-> results[i].document],
          raised |-> "none"]

InitEnvs == [initRaises : BOOLEAN, splitRaises : BOOLEAN, addRaises : BOOLEAN]

Bool(b) == IF b THEN "True" ELSE "False"

\* upload_and_index_document(file_content, filename) -> bool
UploadAndIndexDocument(uf) ==
    /\ deployment = "backend"
    /\ rag_instance = None => objects < MaxObjects
    /\ \E env \in InitEnvs :
        LET got == get_rag_instance(rag_instance, vector_store, data, env)
            up == load_uploaded_document(got.store, uf.content, uf.name, env)
        IN  IF got.raised # "none"
            THEN /\ rag_instance' = got.instance
                 /\ vector_store' = got.store
                 /\ objects' = IF got.fresh THEN objects + 1 ELSE objects
                 /\ memory' = IF got.fresh THEN <<>> ELSE memory
                 /\ last' = [NoObs EXCEPT !.op = "upload_and_index_document",
                                          !.file = uf.name, !.raised = got.raised]
            ELSE /\ rag_instance' = got.instance
                 /\ vector_store' = up.store
                 /\ objects' = IF got.fresh THEN objects + 1 ELSE objects
                 /\ memory' = IF got.fresh THEN <<>> ELSE memory
                 /\ last' = [NoObs EXCEPT !.op = "upload_and_index_document",
                                          !.file = uf.name,
                                          !.kept = got.store \cap up.store,
                                          !.chunks = up.chunks,
                                          !.returned = Bool(up.returned)]
    /\ UNCHANGED <<fixedVars, pipelineVars, appVars>>

BackendChatEnvs ==
    [initRaises : BOOLEAN, splitRaises : {FALSE}, addRaises : {FALSE},
     queryRaises : BOOLEAN, llmRaises : BOOLEAN, seed : 0..MaxSeed,
     llmContent : LLMAnswers]

\* chat_with_documents(question) -> str
ChatWithDocuments(q) ==
    /\ deployment = "backend"
    /\ Len(memory) + 2 <= MaxMsgs
    /\ rag_instance = None => objects < MaxObjects
    /\ \E env \in BackendChatEnvs :
        LET got == get_rag_instance(rag_instance, vector_store, data, env)
            mem == IF got.fresh THEN <<>> ELSE memory
            c == chat(got.store, mem, q, env)
        IN  /\ rag_instance' = got.instance
            /\ vector_store' = got.store
            /\ objects' = IF got.fresh THEN objects + 1 ELSE objects
            /\ IF got.raised # "none"
               THEN /\ memory' = mem
                    /\ last' = [NoObs EXCEPT !.op = "chat_with_documents",
                                             !.query = q,
                                             !.result = SystemUnavailable]
               ELSE /\ memory' = c.memory
                    /\ last' = [NoObs EXCEPT !.op = "chat", !.query = q,
                                             !.llm_failing = env.llmRaises,
                                             !.query_failing = env.queryRaises,
                                             !.raised = c.raised,
                                             !.queried = TRUE,
                                             !.search_raised = env.queryRaises,
                                             !.passages = c.passages,
                                             !.llm_calls = c.llm_calls,
                                             !.llm_content = << env.llmContent >>,
                                             !.result = c.result]
    /\ UNCHANGED <<fixedVars, pipelineVars, appVars>>

\* a direct call of VectorStore.search on the instance's store
VectorStoreSearch(q) ==
    /\ deployment = "backend"
    /\ rag_instance # None
    /\ \E env \in [queryRaises : BOOLEAN, seed : 0..MaxSeed] :
        LET r == search(vector_store, q, env)
        IN  last' = [NoObs EXCEPT !.op = "VectorStore.search", !.query = q,
                                  !.queried = r.queried, !.raised = r.raised,
                                  !.query_failing = env.queryRaises,
                                  !.passages = r.documents,
                                  !.returned = r.returned]
    /\ UNCHANGED <<fixedVars, pipelineVars, appVars, backendVars>>

\* reset_rag_system()
ResetRagSystem ==
    /\ deployment = "backend"
    /\ IF rag_instance # None
       THEN LET cleared == clear_vector_store(vector_store)
            IN  /\ vector_store' = cleared.store
                /\ rag_instance' = IF cleared.raised = "none" THEN None
                                   ELSE rag_instance
                /\ memory' = IF cleared.raised = "none" THEN <<>> ELSE memory
                /\ last' = [NoObs EXCEPT !.op = "reset_rag_system",
                                         !.before = rag_instance,
                                         !.raised = cleared.raised]
       ELSE /\ UNCHANGED <<vector_store, rag_instance, memory>>
            /\ last' = [NoObs EXCEPT !.op = "reset_rag_system"]
    /\ UNCHANGED <<fixedVars, pipelineVars, appVars, objects>>

\* clear_chat_history()
ClearChatHistory ==
    /\ deployment = "backend"
    /\ rag_instance = None => objects < MaxObjects
    /\ \E env \in InitEnvs :
        LET got == get_rag_instance(rag_instance, vector_store, data, env)
        IN  /\ rag_instance' = got.instance
            /\ vector_store' = got.store
            /\ objects' = IF got.fresh THEN objects + 1 ELSE objects
            /\ memory' = IF got.raised = "none" \/ got.fresh THEN <<>> ELSE memory
            /\ last' = [NoObs EXCEPT !.op = "clear_chat_history",
                                     !.raised = got.raised]
    /\ UNCHANGED <<fixedVars, pipelineVars, appVars>>

\* a call of get_rag_instance() by a client (test_backend.py lines 19, 64)
GetRagInstance ==
    /\ deployment = "backend"
    /\ rag_instance = None => objects < MaxObjects
    /\ \E env \in InitEnvs :
        LET got == get_rag_instance(rag_instance, vector_store, data, env)
        IN  /\ rag_instance' = got.instance
            /\ vector_store' = got.store
            /\ objects' = IF got.fresh THEN objects + 1 ELSE objects
            /\ memory' = IF got.fresh THEN <<>> ELSE memory
            /\ last' = [NoObs EXCEPT !.op = "get_rag_instance",
                                     !.before = rag_instance,
                                     !.kept = vector_store,
                                     !.raised = got.raised,
                                     !.returned = IF got.raised = "none"
                                                  THEN got.instance ELSE None]
    /\ UNCHANGED <<fixedVars, pipelineVars, appVars>>

\* a call of load_documents() on the instance
LoadDocuments ==
    /\ deployment = "backend"
    /\ rag_instance # None
    /\ \E env \in InitEnvs :
        LET l == load_documents(vector_store, data, env)
        IN  /\ vector_store' = l.store
            /\ last' = [NoObs EXCEPT !.op = "load_documents",
                                     !.kept = vector_store,
                                     !.raised = l.raised, !.log = l.log,
                                     !.returned = IF l.raised = "none"
                                                  THEN Bool(l.returned) ELSE None]
    /\ UNCHANGED <<fixedVars, pipelineVars, appVars, rag_instance, memory, objects>>

\* a call of load_and_index_documents(force_reload) on the instance's VectorStore
LoadAndIndexDocuments(force_reload) ==
    /\ deployment = "backend"
    /\ rag_instance # None
    /\ \E env \in InitEnvs :
        LET l == load_and_index_documents(vector_store, data, force_reload, env)
        IN  /\ vector_store' = l.store
            /\ last' = [NoObs EXCEPT !.op = "load_and_index_documents",
                                     !.force_reload = force_reload,
                                     !.kept = vector_store,
                                     !.log = l.log,
                                     !.returned = Bool(l.returned)]
    /\ UNCHANGED <<fixedVars, pipelineVars, appVars, rag_instance, memory, objects>>

---------------------------------------------------------------------------
(* src/main.py : RAGPipeline, and the script run of src/frontend/app.py *)

\* the names main.py binds at module level: its imports (lines 1-13), the
\* class and the function; hashlib, Dict, List and RAGBackend are not among them
MainGlobals ==
    {"os", "datetime", "json", "Path", "load_dotenv", "ChatGroq",
     "RecursiveCharacterTextSplitter", "HuggingFaceEmbeddings", "Chroma",
     "RetrievalQA", "PromptTemplate", "Document", "RAGPipeline",
     "get_rag_backend"}

\* evaluating a global name: NameError unless the module binds it
NameLookup(name) == IF name \in MainGlobals THEN "none" ELSE "NameError"

\* executing main.py: the class body evaluates the annotations Dict[str, str]
\* (line 56) when the interpreter evaluates annotations at definition time
import_main ==
    IF python_build = "eager_annotations" THEN NameLookup("Dict") ELSE "none"

\* get_rag_backend(), lines 191-195
get_rag_backend == NameLookup("RAGBackend")

\* the text of an exception, where it is put into a string
ExcText(e) == << "str(e)", e >>

\* hashlib.md5(file_content_bytes).hexdigest()
md5(file_content_bytes) == <<"md5", file_content_bytes>>

\* RAGPipeline.get_document_hash, lines 80-82
get_document_hash(file_content_bytes) ==
    IF NameLookup("hashlib") # "none"
    THEN [raised |-> NameLookup("hashlib"), value |-> None]
    ELSE [raised |-> "none", value |-> md5(file_content_bytes)]

\* RAGPipeline.process_and_store_document(file_content_bytes, original_filename)
process_and_store_document(meta, colls, file_content_bytes, original_filename, storeRaises) ==
    LET h == get_document_hash(file_content_bytes)
        doc_id == h.value
        chunks == split_documents(file_content_bytes)
        stored == {ChunkRecord(original_filename, i - 1, chunks[i]) :
                      i \in 1..Len(chunks)}
    IN  IF h.raised # "none"
        THEN [raised |-> h.raised, returned |-> None, metadata |-> meta,
              collections |-> colls]
        ELSE IF doc_id \in DOMAIN meta
        THEN [raised |-> "none", returned |-> doc_id, metadata |-> meta,
              collections |-> colls]
        ELSE IF storeRaises
        THEN [raised |-> "StoreError", returned |-> None, metadata |-> meta,
              collections |-> colls]
        ELSE [raised |-> "none", returned |-> doc_id,
              metadata |-> [d \in DOMAIN meta \cup {doc_id} |->
                               IF d = doc_id THEN original_filename ELSE meta[d]],
              collections |-> [d \in DOMAIN colls \cup {doc_id} |->
                               IF d = doc_id THEN stored ELSE colls[d]]]

\* RAGPipeline.query_document(doc_id, question) -> str
query_document(colls, doc_id, question, env) ==
    IF env.queryRaises
    THEN [result |-> << "Error: " >> \o ExcText("StoreError"), llm_calls |-> 0]
    ELSE IF env.llmRaises
    THEN [result |-> << "Error: " >> \o ExcText("LLMError"), llm_calls |-> 1]
    ELSE [result |-> << env.llmContent >>, llm_calls |-> 1]

(* src/main.py : the chat histories.  chat_histories holds what json.load  *)
(* gives for chat_histories.json (a missing file reads as the empty dict): *)
(* json.dump writes string keys, lists and dicts of strings, which         *)
(* json.load gives back unchanged.                                         *)

\* the entry {"role": role, "content": content} of a history
Message(role, content) == [role |-> role, content |-> content]

\* RAGPipeline.load_chat_histories, lines 68-73
load_chat_histories(chat_history_file) == chat_history_file

\* RAGPipeline.save_chat_histories, lines 75-78: the file is rewritten whole
save_chat_histories(histories) == histories

\* histories.get(doc_id, [])
histories_get(histories, doc_id) ==
    IF doc_id \in DOMAIN histories THEN histories[doc_id] ELSE <<>>

\* RAGPipeline.get_chat_history, lines 170-173
get_chat_history(chat_history_file, doc_id) ==
    histories_get(load_chat_histories(chat_history_file), doc_id)

\* lines 178-180 of save_message: the message appended to the loaded dict
with_message(histories, doc_id, role, content) ==
    [d \in DOMAIN histories \cup {doc_id} |->
        IF d = doc_id
        THEN Append(histories_get(histories, doc_id), Message(role, content))
        ELSE histories[d]]

\* RAGPipeline.save_message, lines 175-181, run without interruption
save_message(chat_history_file, doc_id, role, content) ==
    save_chat_histories(
        with_message(load_chat_histories(chat_history_file), doc_id, role, content))

\* RAGPipeline.clear_chat_history, lines 183-188
clear_chat_history(chat_history_file, doc_id) ==
    LET histories == load_chat_histories(chat_history_file)
    IN  IF doc_id \in DOMAIN histories
        THEN save_chat_histories([d \in DOMAIN histories \ {doc_id} |-> histories[d]])
        ELSE chat_history_file

\* RAGPipeline.get_available_documents, lines 166-168
get_available_documents(meta) == meta

\* no save_message call in progress
NoSaveCall ==
    [pc |-> "idle", doc_id |-> <<>>, role |-> "-", content |-> <<>>,
     histories |-> <<>>]

\* the document ids save_message is called with
DocIds == {md5("small"), md5("big")}

\* the roles and the contents save_message is called with
Roles == {"user", "assistant"}
SaveContents == {<<"h", "i">>}

\* save_message, line 177: the caller reads the file into its own dict
SaveMessageLoad(c, doc_id, role, content) ==
    /\ deployment = "pipeline"
    /\ main_module = "imported"
    /\ save_calls[c].pc = "idle"
    /\ Len(passed) < MaxSaves
    /\ save_calls' = [save_calls EXCEPT ![c] =
           [pc |-> "loaded", doc_id |-> <<doc_id>>, role |-> role,
            content |-> content,
            histories |-> load_chat_histories(chat_histories)]]
    /\ passed' = Append(passed, <<doc_id, Message(role, content)>>)
    /\ last' = [NoObs EXCEPT !.op = "load_chat_histories", !.caller = c]
    /\ UNCHANGED <<fixedVars, appVars, backendVars, main_module, docs_metadata,
                   doc_collections, chat_histories, frontendVars>>

\* save_message, lines 178-181: the caller appends to its dict and writes
\* the whole dict over the file; the call returns
SaveMessageStore(c) ==
    /\ deployment = "pipeline"
    /\ save_calls[c].pc = "loaded"
    /\ chat_histories' = save_chat_histories(
           with_message(save_calls[c].histories, save_calls[c].doc_id[1],
                        save_calls[c].role, save_calls[c].content))
    /\ save_calls' = [save_calls EXCEPT ![c] = NoSaveCall]
    /\ last' = [NoObs EXCEPT !.op = "save_message", !.caller = c]
    /\ UNCHANGED <<fixedVars, appVars, backendVars, main_module, docs_metadata,
                   doc_collections, passed, frontendVars>>

\* the failures a query can meet
QueryEnvs ==
    [queryRaises : BOOLEAN, llmRaises : BOOLEAN, llmContent : LLMAnswers]

\* what a script run of frontend/app.py finds in its widgets: the Clear
\* Current Chat button, the file uploader, the selectbox (its options are
\* the keys of doc_options: no option, or a document id) and the chat input
NoEvent ==
    [kind |-> "none", clear |-> FALSE, uploaded_file |-> NoUpload,
     selected_doc_name |-> <<>>, prompt |-> <<>>]

FrontendEvents ==
    {NoEvent}
    \cup {[NoEvent EXCEPT !.kind = "clear", !.clear = TRUE]}
    \cup {[NoEvent EXCEPT !.kind = "upload", !.uploaded_file = uf] : uf \in Uploads}
    \cup {[NoEvent EXCEPT !.kind = "switch", !.selected_doc_name = <<d>>] :
             d \in {md5("small"), md5("big")}}
    \cup {[NoEvent EXCEPT !.kind = "question", !.prompt = q] : q \in UserMessages}

\* frontend/app.py lines 68-75: the Clear Current Chat button
clear_chat_button(st, ev) ==
    IF ~ev.clear
    THEN st
    ELSE IF st.active_doc_id # <<>>
    THEN [st EXCEPT !.chat_histories =
                        clear_chat_history(st.chat_histories, st.active_doc_id[1]),
                    !.messages = <<>>,
                    !.shown = @ \cup {Shown("success", "Chat history cleared!", "none")},
                    !.handled = "clear", !.rerun = TRUE]
    ELSE [st EXCEPT !.shown = @ \cup {Shown("warning", "No document selected.", "none")},
                    !.handled = "clear"]

\* lines 79-96: the uploader
file_uploader(st, ev, storeRaises) ==
    IF st.rerun \/ ev.uploaded_file = NoUpload
    THEN st
    ELSE LET r == process_and_store_document(st.docs_metadata, st.doc_collections,
                      ev.uploaded_file.content, ev.uploaded_file.name, storeRaises)
         IN  IF r.raised # "none"
             THEN [st EXCEPT !.shown = @ \cup
                                 {Shown("error", "Error processing file: {e}", r.raised)},
                             !.handled = "upload"]
             ELSE [st EXCEPT !.docs_metadata = r.metadata,
                             !.doc_collections = r.collections,
                             !.active_doc_id = <<r.returned>>,
                             !.messages = get_chat_history(st.chat_histories, r.returned),
                             !.shown = @ \cup
                                 {Shown("success", "'{name}' loaded successfully!", "none")},
                             !.handled = "upload", !.rerun = TRUE]

\* line 125, `name == selected_doc_name`: name is a file name of the
\* uploader (it ends in .txt), selected_doc_name is a key of doc_options,
\* which line 107 fills with the document ids (hex digests)
name_is_selected(name, selected_doc_name) == FALSE

\* line 117, list(doc_options.keys()).index(current_doc_name): the file name
\* of the active document is not among the keys
index_of_current(st) ==
    IF st.active_doc_id # <<>> /\ st.active_doc_id[1] \in DOMAIN st.docs_metadata
    THEN "ValueError"
    ELSE "none"

\* lines 102-136: the document selector
doc_selector(st, ev) ==
    LET available_docs == get_available_documents(st.docs_metadata)
        selected == {d \in DOMAIN available_docs :
                        ev.selected_doc_name # <<>>
                        /\ name_is_selected(available_docs[d], ev.selected_doc_name[1])}
    IN  IF st.rerun
        THEN st
        ELSE IF DOMAIN available_docs = {}
        THEN [st EXCEPT !.shown = @ \cup {Shown("info", "No documents uploaded yet.", "none")}]
        ELSE IF index_of_current(st) # "none"
        THEN [st EXCEPT !.raised = index_of_current(st)]
        ELSE IF selected = {} \/ <<CHOOSE d \in selected : TRUE>> = st.active_doc_id
        THEN st
        ELSE [st EXCEPT !.active_doc_id = <<CHOOSE d \in selected : TRUE>>,
                        !.messages = get_chat_history(st.chat_histories,
                                                      CHOOSE d \in selected : TRUE),
                        !.shown = @ \cup {Shown("success", "Switched to: **{name}**", "none")},
                        !.handled = "switch", !.rerun = TRUE]

\* lines 147-180: the chat input
chat_input(st, ev, env) ==
    IF st.rerun \/ st.raised # "none" \/ st.active_doc_id = <<>> \/ ev.prompt = <<>>
    THEN st
    ELSE LET doc_id == st.active_doc_id[1]
             response == query_document(st.doc_collections, doc_id, ev.prompt, env).result
         IN  [st EXCEPT !.messages = @ \o <<Message("user", ev.prompt),
                                            Message("assistant", response)>>,
                        !.chat_histories =
                            save_message(save_message(@, doc_id, "user", ev.prompt),
                                         doc_id, "assistant", response),
                        !.handled = "question", !.rerun = TRUE]

\* lines 37-180, the part of the script below init_backend()
frontend_script(st, ev, storeRaises, env) ==
    chat_input(doc_selector(file_uploader(clear_chat_button(st, ev), ev, storeRaises),
                            ev),
               ev, env)

\* one script run of frontend/app.py in session s: `from main import
\* get_rag_backend` (line 9), then init_backend() (lines 25-35), whose
\* st.stop() ends the run when get_rag_backend() raised
FrontendScriptRun(s, ev) ==
    /\ deployment = "pipeline"
    /\ \E storeRaises \in BOOLEAN, env \in QueryEnvs :
        LET st == [active_doc_id |-> active_doc_id[s],
                   messages |-> session_messages[s],
                   docs_metadata |-> docs_metadata,
                   doc_collections |-> doc_collections,
                   chat_histories |-> chat_histories,
                   shown |-> {}, raised |-> "none", handled |-> "none",
                   rerun |-> FALSE]
            obs == [NoObs EXCEPT !.op = "frontend_run", !.session = s,
                                 !.event = ev.kind]
        IN  IF import_main # "none"
            THEN /\ main_module' = "not imported"
                 /\ last' = [obs EXCEPT !.raised = import_main,
                                        !.shown = {Shown("uncaught", "{traceback}", import_main)}]
                 /\ UNCHANGED <<docs_metadata, doc_collections, chat_histories,
                                frontendVars>>
            ELSE IF get_rag_backend # "none"
            THEN /\ main_module' = "imported"
                 /\ last' = [obs EXCEPT !.raised = get_rag_backend,
                                        !.shown =
                                            {Shown("error", "Failed to initialize backend: {e}", get_rag_backend),
                                             Shown("error", "Please make sure your GROQ_API_KEY is set in the .env file", "none")}]
                 /\ UNCHANGED <<docs_metadata, doc_collections, chat_histories,
                                frontendVars>>
            ELSE /\ main_module' = "imported"
                 /\ docs_metadata' = frontend_script(st, ev, storeRaises, env).docs_metadata
                 /\ doc_collections' = frontend_script(st, ev, storeRaises, env).doc_collections
                 /\ chat_histories' = frontend_script(st, ev, storeRaises, env).chat_histories
                 /\ active_doc_id' = [active_doc_id EXCEPT ![s] =
                        frontend_script(st, ev, storeRaises, env).active_doc_id]
                 /\ session_messages' = [session_messages EXCEPT ![s] =
                        frontend_script(st, ev, storeRaises, env).messages]
                 /\ last' = [obs EXCEPT
                        !.raised = frontend_script(st, ev, storeRaises, env).raised,
                        !.shown = frontend_script(st, ev, storeRaises, env).shown,
                        !.handled = frontend_script(st, ev, storeRaises, env).handled]
    /\ UNCHANGED <<fixedVars, appVars, backendVars, save_calls, passed>>

\* a call of RAGPipeline().process_and_store_document on the imported module
ProcessAndStoreDocument(uf) ==
    /\ deployment = "pipeline"
    /\ main_module = "imported"
    /\ \E storeRaises \in BOOLEAN :
        LET r == process_and_store_document(docs_metadata, doc_collections,
                                            uf.content, uf.name, storeRaises)
        IN  /\ docs_metadata' = r.metadata
            /\ doc_collections' = r.collections
            /\ last' = [NoObs EXCEPT !.op = "process_and_store_document",
                                     !.file = uf.name, !.content = uf.content,
                                     !.raised = r.raised,
                                     !.doc_id = r.returned]
    /\ UNCHANGED <<fixedVars, appVars, backendVars, main_module, historyVars,
                   frontendVars>>

\* a call of RAGPipeline().query_document on the imported module
QueryDocument(doc_id, q) ==
    /\ deployment = "pipeline"
    /\ main_module = "imported"
    /\ \E env \in [queryRaises : BOOLEAN, llmRaises : BOOLEAN,
                    llmContent : LLMAnswers] :
        LET r == query_document(doc_collections, doc_id, q, env)
        IN  last' = [NoObs EXCEPT !.op = "query_document", !.query = q,
                                  !.doc_id = doc_id,
                                  !.query_failing = env.queryRaises,
                                  !.llm_failing = env.llmRaises,
                                  !.llm_calls = r.llm_calls,
                                  !.result = r.result]
    /\ UNCHANGED <<fixedVars, appVars, backendVars, pipelineVars>>

---------------------------------------------------------------------------
(* The text splitters: RecursiveCharacterTextSplitter as the repository     *)
(* configures it in src/backend/text_loader.py, src/text_loader.py and     *)
(* src/rag_system.py.  A text is a sequence of one-character strings.      *)

\* the characters of the texts under check: a letter, a blank and a newline
TextChars == {"a", " ", "\n"}

RECURSIVE TextsOfLen(_)
TextsOfLen(n) ==
    IF n = 0 THEN { <<>> }
    ELSE {Append(t, c) : t \in TextsOfLen(n - 1), c \in TextChars}

Texts == UNION {TextsOfLen(n) : n \in 0..MaxText}

\* separators=None of RecursiveCharacterTextSplitter: ["\n\n", "\n", " ", ""]
DefaultSeparators == << <<"\n", "\n">>, <<"\n">>, <<" ">>, <<>> >>

\* os.getenv(name, default) followed by int(...)
getenv(env, name, default) ==
    IF env[name] = <<>> THEN default ELSE env[name][1]

\* TextSplitter.__init__: what the constructor raises. Every langchain raises
\* for chunk_overlap > chunk_size and accepts chunk_overlap = chunk_size; only
\* the newer ones (validates_sign) also refuse chunk_size <= 0 and
\* chunk_overlap < 0.
TextSplitter_init(chunk_size, chunk_overlap, validates_sign) ==
    IF validates_sign /\ chunk_size <= 0 THEN "ValueError"
    ELSE IF validates_sign /\ chunk_overlap < 0 THEN "ValueError"
    ELSE IF chunk_overlap > chunk_size THEN "ValueError"
    ELSE "none"

\* str.find(separator) from position from (1-based); 0 when it does not occur
find(text, separator, from) ==
    LET hits == {i \in from..(Len(text) - Len(separator) + 1) :
                    SubSeq(text, i, i + Len(separator) - 1) = separator}
    IN  IF hits = {} THEN 0 ELSE CHOOSE i \in hits : \A j \in hits : i <= j

RECURSIVE re_split(_, _)
\* re.split(separator, text) for a literal, non-empty separator: the pieces
\* between the occurrences, taken from the left without overlap
re_split(text, separator) ==
    LET i == find(text, separator, 1)
    IN  IF i = 0 THEN << text >>
        ELSE << SubSeq(text, 1, i - 1) >>
             \o re_split(SubSeq(text, i + Len(separator), Len(text)), separator)

\* _split_text_with_regex(text, separator, keep_separator=True): each
\* separator stays at the start of the piece that follows it; empty pieces
\* are dropped; the separator "" cuts the text into its characters
split_text_with_regex(text, separator) ==
    LET splits ==
            IF separator # <<>>
            THEN LET p == re_split(text, separator)
                 IN  << p[1] >> \o [i \in 1..(Len(p) - 1) |-> separator \o p[i + 1]]
            ELSE [i \in 1..Len(text) |-> << text[i] >>]
    IN  SelectSeq(splits, LAMBDA s : s # <<>>)

RECURSIVE lstrip(_)
lstrip(str) ==
    IF str # <<>> /\ Head(str) \in Whitespace THEN lstrip(Tail(str)) ELSE str

RECURSIVE rstrip(_)
rstrip(str) ==
    IF str # <<>> /\ str[Len(str)] \in Whitespace
    THEN rstrip(SubSeq(str, 1, Len(str) - 1))
    ELSE str

\* str.strip()
strip(str) == lstrip(rstrip(str))

RECURSIVE str_join(_, _)
\* separator.join(docs)
str_join(separator, docs) ==
    IF docs = <<>> THEN <<>>
    ELSE IF Len(docs) = 1 THEN docs[1]
    ELSE docs[1] \o separator \o str_join(separator, Tail(docs))

\* a text as a list of no or one text: None for the empty text
none_if_empty(text) == IF text = <<>> THEN <<>> ELSE << text >>

\* TextSplitter._join_docs: the joined and stripped text, or nothing when it
\* is empty
join_docs(docs, separator) == none_if_empty(strip(str_join(separator, docs)))

RECURSIVE shrink(_, _, _, _, _, _)
\* the while loop of _merge_splits, which drops pieces from the front of
\* current_doc; current_doc[0] on an empty list is an IndexError
shrink(current_doc, total, len, separator_len, chunk_size, chunk_overlap) ==
    IF \/ total > chunk_overlap
       \/ /\ total + len + (IF Len(current_doc) > 0 THEN separator_len ELSE 0)
               > chunk_size
          /\ total > 0
    THEN IF current_doc = <<>>
         THEN [current_doc |-> current_doc, total |-> total,
               raised |-> "IndexError"]
         ELSE shrink(Tail(current_doc),
                     total - (Len(current_doc[1])
                              + (IF Len(current_doc) > 1 THEN separator_len ELSE 0)),
                     len, separator_len, chunk_size, chunk_overlap)
    ELSE [current_doc |-> current_doc, total |-> total, raised |-> "none"]

\* _merge_splits, the body of `if len(current_doc) > 0`: current_doc becomes
\* a chunk and sh is what the while loop leaves of it
flush(st, sh, separator) ==
    [docs |-> st.docs \o join_docs(st.current_doc, separator),
     current_doc |-> sh.current_doc, total |-> sh.total, raised |-> sh.raised]

\* _merge_splits: current_doc.append(d) and the new total
append_piece(st, d, separator_len) ==
    IF st.raised # "none" THEN st
    ELSE [st EXCEPT !.current_doc = Append(@, d),
                    !.total = @ + Len(d)
                              + (IF Len(st.current_doc) + 1 > 1
                                 THEN separator_len ELSE 0)]

\* _merge_splits: one round of the for loop, for the piece d
merge_step(st, d, separator, chunk_size, chunk_overlap) ==
    append_piece(
        IF /\ st.total + Len(d)
                + (IF Len(st.current_doc) > 0 THEN Len(separator) ELSE 0)
                > chunk_size
           /\ Len(st.current_doc) > 0
        THEN flush(st, shrink(st.current_doc, st.total, Len(d), Len(separator),
                              chunk_size, chunk_overlap),
                   separator)
        ELSE st,
        d, Len(separator))

RECURSIVE merge_loop(_, _, _, _, _)
\* the for loop of _merge_splits over the pieces left; st holds docs,
\* current_doc and total
merge_loop(splits, separator, chunk_size, chunk_overlap, st) ==
    IF splits = <<>> \/ st.raised # "none" THEN st
    ELSE merge_loop(Tail(splits), separator, chunk_size, chunk_overlap,
                    merge_step(st, Head(splits), separator, chunk_size,
                               chunk_overlap))

\* _merge_splits after the loop: what is left in current_doc is the last chunk
last_doc(st, separator) ==
    IF st.raised # "none" THEN [chunks |-> <<>>, raised |-> st.raised]
    ELSE [chunks |-> st.docs \o join_docs(st.current_doc, separator),
          raised |-> "none"]

\* TextSplitter._merge_splits(splits, separator): the pieces packed into
\* chunks of at most chunk_size, the next chunk starting with the last
\* pieces (at most chunk_overlap characters) of the one before
merge_splits(splits, separator, chunk_size, chunk_overlap) ==
    last_doc(merge_loop(splits, separator, chunk_size, chunk_overlap,
                        [docs |-> <<>>, current_doc |-> <<>>, total |-> 0,
                         raised |-> "none"]),
             separator)

\* the first separator of the list that is "" or occurs in the text, and the
\* separators after it; the last one, and none after it, when none occurs
pick_separator(text, separators) ==
    LET hits == {i \in 1..Len(separators) :
                    separators[i] = <<>> \/ find(text, separators[i], 1) # 0}
        i == CHOOSE k \in hits : \A j \in hits : k <= j
    IN  IF hits = {}
        THEN [separator |-> separators[Len(separators)], new_separators |-> <<>>]
        ELSE IF separators[i] = <<>>
        THEN [separator |-> <<>>, new_separators |-> <<>>]
        ELSE [separator |-> separators[i],
              new_separators |-> SubSeq(separators, i + 1, Len(separators))]

\* _split_text: splits, the pieces of the text cut at the separator picked
pieces_of(text, separators) ==
    split_text_with_regex(text, pick_separator(text, separators).separator)

\* _split_text: new_separators
separators_after(text, separators) ==
    pick_separator(text, separators).new_separators

RECURSIVE concat(_)
\* the chunk lists of the pieces, one after the other
concat(lists) ==
    IF lists = <<>> THEN <<>> ELSE Head(lists) \o concat(Tail(lists))

\* final_chunks, from what the loop appended for each piece; an exception
\* raised for a piece ends the split
final_chunks(added) ==
    IF \E i \in DOMAIN added : added[i].raised # "none"
    THEN [chunks |-> <<>>,
          raised |-> added[CHOOSE i \in DOMAIN added :
                              /\ added[i].raised # "none"
                              /\ \A j \in 1..(i - 1) : added[j].raised = "none"
                          ].raised]
    ELSE [chunks |-> concat([i \in DOMAIN added |-> added[i].chunks]),
          raised |-> "none"]

\* _good_splits when piece i has been appended to it: the pieces shorter
\* than chunk_size that end with piece i
good_splits(splits, i, chunk_size) ==
    SubSeq(splits,
           CHOOSE k \in 1..i :
               /\ \A j \in k..i : Len(splits[j]) < chunk_size
               /\ k = 1 \/ ~(Len(splits[k - 1]) < chunk_size),
           i)

RECURSIVE split_pieces(_, _, _, _)
\* the for loop of RecursiveCharacterTextSplitter._split_text over splits,
\* and the merge after it. A piece shorter than chunk_size is kept in
\* _good_splits; a longer one first has the kept pieces merged into chunks,
\* then is split with the separators left, and becomes a chunk as it is when
\* none is left.
split_pieces(splits, new_separators, chunk_size, chunk_overlap) ==
    final_chunks(
        [i \in 1..Len(splits) |->
            IF ~(Len(splits[i]) < chunk_size)
            THEN IF new_separators = <<>>
                 THEN [chunks |-> << splits[i] >>, raised |-> "none"]
                 ELSE split_pieces(pieces_of(splits[i], new_separators),
                                   separators_after(splits[i], new_separators),
                                   chunk_size, chunk_overlap)
            ELSE IF i = Len(splits) \/ ~(Len(splits[i + 1]) < chunk_size)
            THEN merge_splits(good_splits(splits, i, chunk_size), <<>>,
                              chunk_size, chunk_overlap)
            ELSE [chunks |-> <<>>, raised |-> "none"]])

\* RecursiveCharacterTextSplitter._split_text(text, separators), which
\* split_documents applies to the page content of every document
split_text(text, separators, chunk_size, chunk_overlap) ==
    split_pieces(pieces_of(text, separators), separators_after(text, separators),
                 chunk_size, chunk_overlap)

\* the result of a call that raised before any splitter was used
no_split(raised) == [chunks |-> <<>>, used |-> <<>>, raised |-> raised]

\* the result r of a split with the chunk_size and chunk_overlap of its splitter
with_config(r, chunk_size, chunk_overlap) ==
    [chunks |-> r.chunks, used |-> << chunk_size, chunk_overlap >>,
     raised |-> r.raised]

\* a splitter is constructed and applied to one document
construct_and_split(text, separators, chunk_size, chunk_overlap, validates_sign) ==
    IF TextSplitter_init(chunk_size, chunk_overlap, validates_sign) # "none"
    THEN no_split(TextSplitter_init(chunk_size, chunk_overlap, validates_sign))
    ELSE with_config(split_text(text, separators, chunk_size, chunk_overlap),
                     chunk_size, chunk_overlap)

\* TextFileManager.process_text_content_to_chunks(text_content) on the text
\* itself: blank text returns [] before the configuration is read; the
\* separators are [TEXT_SEPARATOR or "\n\n", "\n\n"]
process_text_content_to_chunks_text(text_content, env, validates_sign) ==
    IF is_blank(text_content) THEN no_split("none")
    ELSE IF getenv(env, "CHUNK_OVERLAP", 200) >= getenv(env, "CHUNK_SIZE", 1500)
    THEN no_split("ValueError")
    ELSE construct_and_split(
             text_content,
             << getenv(env, "TEXT_SEPARATOR", <<"\n", "\n">>), <<"\n", "\n">> >>,
             getenv(env, "CHUNK_SIZE", 1500), getenv(env, "CHUNK_OVERLAP", 200),
             validates_sign)

\* chunk_size or int(os.getenv(name, default)): None and 0 are both false
arg_or_env(arg, env, name, default) ==
    IF arg = <<>> \/ arg = << 0 >> THEN getenv(env, name, default) ELSE arg[1]

\* TextFileManager.load_and_split(chunk_size, chunk_overlap) on a data
\* directory that holds one file with the content text
load_and_split_text(text, chunk_size, chunk_overlap, env, validates_sign) ==
    IF arg_or_env(chunk_overlap, env, "CHUNK_OVERLAP", 200)
           >= arg_or_env(chunk_size, env, "CHUNK_SIZE", 1000)
    THEN no_split("ValueError")
    ELSE construct_and_split(
             text, DefaultSeparators,
             arg_or_env(chunk_size, env, "CHUNK_SIZE", 1000),
             arg_or_env(chunk_overlap, env, "CHUNK_OVERLAP", 200),
             validates_sign)

\* a keyword argument with a default value
arg_or_default(arg, default) == IF arg = <<>> THEN default ELSE arg[1]

\* DocumentLoader.split_documents: every exception of the split is caught
\* and gives []
split_documents_caught(r) ==
    IF r.used # <<>> /\ r.raised # "none"
    THEN [r EXCEPT !.chunks = <<>>, !.raised = "none"]
    ELSE r

\* DocumentLoader(chunk_size, chunk_overlap).load_and_split_bytes(text): the
\* constructor has no check of its own and raises what TextSplitter raises
DocumentLoader_load_and_split_bytes(text, chunk_size, chunk_overlap, validates_sign) ==
    split_documents_caught(
        construct_and_split(text, DefaultSeparators,
                            arg_or_default(chunk_size, 1000),
                            arg_or_default(chunk_overlap, 200), validates_sign))

\* RAGSystem.text_splitter (chunk_size=1500, chunk_overlap=200) applied to
\* the documents of process_document
RAGSystem_split_documents(text, validates_sign) ==
    construct_and_split(text, DefaultSeparators, 1500, 200, validates_sign)

\* the chunk sizes and overlaps passed or set in the environment
SizeArgs == { <<>>, << -1 >>, << 0 >>, << 2 >>, << 3 >> }
OverlapArgs == { <<>>, << -2 >>, << 0 >>, << 1 >>, << 2 >>, << 3 >> }

\* the calls under check, one per splitter configuration
ChunkCalls ==
    { [fn |-> "process_text_content_to_chunks", text |-> t,
       chunk_size |-> <<>>, chunk_overlap |-> <<>>,
       env |-> [CHUNK_SIZE |-> cs, CHUNK_OVERLAP |-> co, TEXT_SEPARATOR |-> sep],
       validates_sign |-> v] :
        t \in Texts, cs \in SizeArgs, co \in OverlapArgs,
        sep \in { <<>>, << <<"\n">> >> }, v \in BOOLEAN }
    \cup
    { [fn |-> "load_and_split", text |-> t,
       chunk_size |-> cs, chunk_overlap |-> co,
       env |-> [NoEnv EXCEPT !.CHUNK_SIZE = ecs],
       validates_sign |-> v] :
        t \in Texts, cs \in SizeArgs, co \in OverlapArgs,
        ecs \in { <<>>, << 2 >> }, v \in BOOLEAN }
    \cup
    { [fn |-> "DocumentLoader", text |-> t,
       chunk_size |-> cs, chunk_overlap |-> co, env |-> NoEnv,
       validates_sign |-> v] :
        t \in Texts, cs \in SizeArgs, co \in OverlapArgs, v \in BOOLEAN }
    \cup
    { [fn |-> "RAGSystem", text |-> t,
       chunk_size |-> <<>>, chunk_overlap |-> <<>>, env |-> NoEnv,
       validates_sign |-> v] :
        t \in Texts, v \in BOOLEAN }

\* what a call of a splitter leaves in last
ChunkObs(r) ==
    [NoObs EXCEPT !.op = call.fn, !.raised = r.raised,
                  !.page_contents = r.chunks, !.used = r.used,
                  !.chunks = Len(r.chunks)]

ProcessTextContentToChunks ==
    /\ deployment = "chunker"
    /\ call.fn = "process_text_content_to_chunks"
    /\ last' = ChunkObs(process_text_content_to_chunks_text(
                            call.text, call.env, call.validates_sign))
    /\ UNCHANGED <<fixedVars, appVars, backendVars, pipelineVars>>

LoadAndSplit ==
    /\ deployment = "chunker"
    /\ call.fn = "load_and_split"
    /\ last' = ChunkObs(load_and_split_text(call.text, call.chunk_size,
                                            call.chunk_overlap, call.env,
                                            call.validates_sign))
    /\ UNCHANGED <<fixedVars, appVars, backendVars, pipelineVars>>

DocumentLoaderLoadAndSplitBytes ==
    /\ deployment = "chunker"
    /\ call.fn = "DocumentLoader"
    /\ last' = ChunkObs(DocumentLoader_load_and_split_bytes(
                            call.text, call.chunk_size, call.chunk_overlap,
                            call.validates_sign))
    /\ UNCHANGED <<fixedVars, appVars, backendVars, pipelineVars>>

RAGSystemSplitDocuments ==
    /\ deployment = "chunker"
    /\ call.fn = "RAGSystem"
    /\ last' = ChunkObs(RAGSystem_split_documents(call.text, call.validates_sign))
    /\ UNCHANGED <<fixedVars, appVars, backendVars, pipelineVars>>

---------------------------------------------------------------------------
(* Specification *)

Init ==
    /\ deployment \in {"app", "backend", "pipeline"}
    /\ chromadb_build \in IF deployment = "pipeline" THEN {"current"}
                          ELSE {"legacy", "current"}
    /\ python_build \in IF deployment = "pipeline"
                        THEN {"eager_annotations", "deferred_annotations"}
                        ELSE {"eager_annotations"}
    /\ sessions = {"s1"}
    /\ call = NoCall
    /\ collection = {}
    /\ rag_current_file_name = None
    /\ rag_system = None
    /\ chats = NoChats
    /\ data \in IF deployment \in {"app", "pipeline"}
                THEN {[f \in FileNames |-> None]}
                ELSE {[f \in FileNames |-> None],
                      [f \in FileNames |-> IF f = "a.txt" THEN "small" ELSE None]}
    /\ uploaded_file = [s \in Sessions |-> NoUpload]
    /\ current_file_name = [s \in Sessions |-> None]
    /\ messages = [s \in Sessions |-> <<>>]
    /\ rerun = [s \in Sessions |-> FALSE]
    /\ rag_instance = None
    /\ vector_store = {}
    /\ memory = <<>>
    /\ objects = 0
    /\ main_module = "not imported"
    /\ docs_metadata = <<>>
    /\ doc_collections = <<>>
    /\ chat_histories = <<>>
    /\ save_calls = [c \in Sessions |-> NoSaveCall]
    /\ passed = <<>>
    /\ active_doc_id = [s \in Sessions |-> <<>>]
    /\ session_messages = [s \in Sessions |-> <<>>]
    /\ last = NoObs

Next ==
    \/ \E config \in Configs, server \in ServerStates : GetRagSystem(config, server)
    \/ \E s \in sessions, uf \in Uploads : SelectFile(s, uf)
    \/ \E s \in sessions : RemoveFile(s)
    \/ \E s \in sessions : Rerun(s)
    \/ \E s \in sessions, q \in UserMessages : AskQuestion(s, q)
    \/ \E s \in sessions : ClearChat(s)
    \/ \E uf \in SmallUploads : UploadAndIndexDocument(uf)
    \/ \E q \in UserMessages \cup {<<>>} : ChatWithDocuments(q)
    \/ \E q \in UserMessages \cup {<<>>} : VectorStoreSearch(q)
    \/ ResetRagSystem
    \/ ClearChatHistory
    \/ GetRagInstance
    \/ LoadDocuments
    \/ \E force_reload \in BOOLEAN : LoadAndIndexDocuments(force_reload)
    \/ \E s \in sessions, ev \in FrontendEvents : FrontendScriptRun(s, ev)
    \/ \E uf \in Uploads : ProcessAndStoreDocument(uf)
    \/ \E uf \in Uploads, q \in UserMessages : QueryDocument(md5(uf.content), q)

Spec == Init /\ [][Next]_vars

\* The app with its saved chats, on documents of one embedding batch

\* the one question asked in the saved chats
ChatQuestions == { <<"h", "i">> }

InitChats ==
    /\ deployment = "app"
    /\ chromadb_build \in {"legacy", "current"}
    /\ python_build = "eager_annotations"
    /\ sessions = {"s1"}
    /\ call = NoCall
    /\ collection = {}
    /\ rag_current_file_name = None
    /\ rag_system = "RAGSystem"
    /\ chats = NoChats
    /\ data = [f \in FileNames |-> None]
    /\ uploaded_file = [s \in Sessions |-> NoUpload]
    /\ current_file_name = [s \in Sessions |-> None]
    /\ messages = [s \in Sessions |-> <<>>]
    /\ rerun = [s \in Sessions |-> FALSE]
    /\ rag_instance = None
    /\ vector_store = {}
    /\ memory = <<>>
    /\ objects = 0
    /\ main_module = "not imported"
    /\ docs_metadata = <<>>
    /\ doc_collections = <<>>
    /\ chat_histories = <<>>
    /\ save_calls = [c \in Sessions |-> NoSaveCall]
    /\ passed = <<>>
    /\ active_doc_id = [s \in Sessions |-> <<>>]
    /\ session_messages = [s \in Sessions |-> <<>>]
    /\ last = NoObs

NextChats ==
    \/ \E s \in sessions, uf \in SmallUploads : SelectFile(s, uf)
    \/ \E s \in sessions : RemoveFile(s)
    \/ \E s \in sessions : Rerun(s)
    \/ \E s \in sessions, q \in ChatQuestions : AskQuestion(s, q)
    \/ \E s \in sessions : ClearChat(s)
    \/ \E s \in sessions, now \in Times : SaveChat(s, now)
    \/ \E s \in sessions, f \in ChatFiles : LoadChat(s, f)
    \/ \E s \in sessions, f \in ChatFiles : DeleteChat(s, f)

SpecChats == InitChats /\ [][NextChats]_vars

\* the splitters as pure functions: one call, drawn in the initial state
InitChunk ==
    /\ deployment = "chunker"
    /\ chromadb_build = "current"
    /\ python_build = "eager_annotations"
    /\ sessions = {"s1"}
    /\ call \in ChunkCalls
    /\ collection = {}
    /\ rag_current_file_name = None
    /\ rag_system = None
    /\ chats = NoChats
    /\ data = [f \in FileNames |-> None]
    /\ uploaded_file = [s \in Sessions |-> NoUpload]
    /\ current_file_name = [s \in Sessions |-> None]
    /\ messages = [s \in Sessions |-> <<>>]
    /\ rerun = [s \in Sessions |-> FALSE]
    /\ rag_instance = None
    /\ vector_store = {}
    /\ memory = <<>>
    /\ objects = 0
    /\ main_module = "not imported"
    /\ docs_metadata = <<>>
    /\ doc_collections = <<>>
    /\ chat_histories = <<>>
    /\ save_calls = [c \in Sessions |-> NoSaveCall]
    /\ passed = <<>>
    /\ active_doc_id = [s \in Sessions |-> <<>>]
    /\ session_messages = [s \in Sessions |-> <<>>]
    /\ last = NoObs

NextChunk ==
    \/ ProcessTextContentToChunks
    \/ LoadAndSplit
    \/ DocumentLoaderLoadAndSplitBytes
    \/ RAGSystemSplitDocuments

SpecChunk == InitChunk /\ [][NextChunk]_vars

\* the one cached RAGSystem under two browser sessions: get_rag_system has
\* run, and each session uploads, reruns and asks
InitShared ==
    /\ deployment = "app"
    /\ chromadb_build \in {"legacy", "current"}
    /\ python_build = "eager_annotations"
    /\ sessions = Sessions
    /\ call = NoCall
    /\ collection = {}
    /\ rag_current_file_name = None
    /\ rag_system = "RAGSystem"
    /\ chats = NoChats
    /\ data = [f \in FileNames |-> None]
    /\ uploaded_file = [s \in Sessions |-> NoUpload]
    /\ current_file_name = [s \in Sessions |-> None]
    /\ messages = [s \in Sessions |-> <<>>]
    /\ rerun = [s \in Sessions |-> FALSE]
    /\ rag_instance = None
    /\ vector_store = {}
    /\ memory = <<>>
    /\ objects = 0
    /\ main_module = "not imported"
    /\ docs_metadata = <<>>
    /\ doc_collections = <<>>
    /\ chat_histories = <<>>
    /\ save_calls = [c \in Sessions |-> NoSaveCall]
    /\ passed = <<>>
    /\ active_doc_id = [s \in Sessions |-> <<>>]
    /\ session_messages = [s \in Sessions |-> <<>>]
    /\ last = NoObs

\* the uploads of the two sessions: two files of two chunks each
SharedUploads == {uf \in Uploads : uf.content = "small"}

NextShared ==
    \/ \E s \in sessions, uf \in SharedUploads : SelectFile(s, uf)
    \/ \E s \in sessions : Rerun(s)
    \/ \E s \in sessions, q \in ChatQuestions : AskQuestion(s, q)

SpecShared == InitShared /\ [][NextShared]_vars

\* RAGPipeline.save_message called from two threads on the one file
\* data/chat_histories.json
InitSave ==
    /\ deployment = "pipeline"
    /\ chromadb_build = "current"
    /\ python_build \in {"eager_annotations", "deferred_annotations"}
    /\ sessions = Sessions
    /\ call = NoCall
    /\ collection = {}
    /\ rag_current_file_name = None
    /\ rag_system = None
    /\ chats = NoChats
    /\ data = [f \in FileNames |-> None]
    /\ uploaded_file = [s \in Sessions |-> NoUpload]
    /\ current_file_name = [s \in Sessions |-> None]
    /\ messages = [s \in Sessions |-> <<>>]
    /\ rerun = [s \in Sessions |-> FALSE]
    /\ rag_instance = None
    /\ vector_store = {}
    /\ memory = <<>>
    /\ objects = 0
    /\ main_module = "not imported"
    /\ docs_metadata = <<>>
    /\ doc_collections = <<>>
    /\ chat_histories = <<>>
    /\ save_calls = [c \in Sessions |-> NoSaveCall]
    /\ passed = <<>>
    /\ active_doc_id = [s \in Sessions |-> <<>>]
    /\ session_messages = [s \in Sessions |-> <<>>]
    /\ last = NoObs

NextSave ==
    \/ \E s \in sessions : FrontendScriptRun(s, NoEvent)
    \/ \E c \in sessions, doc_id \in DocIds, role \in Roles, content \in SaveContents :
           SaveMessageLoad(c, doc_id, role, content)
    \/ \E c \in sessions : SaveMessageStore(c)

SpecSave == InitSave /\ [][NextSave]_vars

---------------------------------------------------------------------------
(* Claims *)

\* C1: after a process_document call that returned normally, no entry stored
\* before the call is left in the collection (also when its delete step raised)
C1_NoStaleChunkAfterProcess ==
    (last.op = "process_document" /\ last.raised = "none")
        => last.kept \cap collection = {}

\* C2: when an embedding batch raises in process_document, the error reaches
\* the caller and the collection is the one it was before the call
C2_EmbedFailureLeavesStore ==
    [][ (last'.op = "process_document" /\ last'.raised = "EmbeddingError")
            => collection' = collection ]_vars

\* C3: when chunking gives zero chunks, indexing reports failure and the
\* store is the one it was before the call
C3_ZeroChunksFailsUntouched ==
    [][ /\ (last'.op = "process_document" /\ last'.chunks = 0)
            => (last'.raised # "none" /\ collection' = collection)
        /\ (last'.op = "upload_and_index_document" /\ last'.chunks = 0)
            => (last'.returned = "False" /\ vector_store' = vector_store) ]_vars

\* C4: a search returns at most top_k passages, each the document of a stored
\* entry of the file the search is scoped to, never one of another file
C4_SearchScopedToDocument ==
    (last.op = "question" /\ last.queried)
        => /\ Len(last.passage_ids) <= TopK
           /\ \A i \in 1..Len(last.passage_ids) :
                /\ last.passage_ids[i][1] = last.scope
                /\ \E r \in collection :
                      /\ r.id = last.passage_ids[i]
                      /\ r.source_file = last.scope
                      /\ r.document = last.passages[i]

\* C4 witness: passages were returned while the collection also held entries
\* of another file
C4_Witness ==
    /\ last.op = "question"
    /\ last.passages # <<>>
    /\ \E r \in collection : r.source_file # last.scope

\* C5: when the LLM provider fails during a turn, the answer operation does
\* not raise and returns its fixed fallback string
C5_LLMFailureGivesFallback ==
    /\ (last.op = "question" /\ last.file # None /\ last.llm_failing)
          => (last.raised = "none" /\ last.result = AppFallback)
    /\ (last.op = "chat" /\ last.llm_failing)
          => (last.raised = "none" /\ last.result = BackendFallback)

\* C6: when retrieval and the LLM both succeed, generate_response returns the
\* content of the LLM response and invokes the LLM exactly once
C6_ReturnsLLMContentOnce ==
    (last.op = "question" /\ last.file # None
        /\ ~last.query_failing /\ ~last.llm_failing)
        => (last.raised = "none" /\ last.result = last.llm_content
            /\ last.llm_calls = 1)

\* C7: a question submitted while the session has no document triggers no
\* retrieval and no LLM call, leaves the history and the store unchanged, and
\* shows the prompt to upload a document
C7_NoDocumentNoWork ==
    [][ (last'.op = "question" /\ current_file_name[last'.session] = None)
            => /\ messages' = messages
               /\ collection' = collection
               /\ ~last'.queried
               /\ last'.llm_calls = 0
               /\ Shown("warning",
                        "Please upload a document first to start asking questions.",
                        "none") \in last'.shown ]_vars

\* C7 witness: a question was handled while no document was loaded
C7_Witness ==
    /\ last.op = "question"
    /\ last.file = None
    /\ current_file_name[last.session] = None
    /\ last.shown # {}

\* C8: when the store query raises inside search_document, search_document
\* returns no passage and generate_response goes on to call the LLM
C8_QueryFailureStillCallsLLM ==
    (last.op = "question" /\ last.search_raised)
        => (last.passages = <<>> /\ last.llm_calls = 1)

\* C9: for a blank query, retrieval returns an empty sequence and does not
\* query the vector store
C9_BlankQueryNotSearched ==
    /\ (last.op = "question" /\ last.file # None /\ is_blank(last.query))
          => (~last.queried /\ last.passages = <<>>)
    /\ (last.op = "VectorStore.search" /\ is_blank(last.query))
          => (~last.queried /\ last.passages = <<>> /\ last.returned = "list")

C19_UnreachableStoreConnectionError ==
    /\ (last.op = "get_rag_system" /\ last.config = RequiredKeys
            /\ last.server # "up")
          => /\ last.raised = "ConnectionError"
             /\ rag_system = None
             /\ Shown("error", "Failed to connect to ChromaDB: {e}",
                      "ConnectionError") \in last.shown
    /\ (last.op = "get_rag_system" /\ last.config # RequiredKeys)
          => /\ rag_system = None
             /\ \E x \in last.shown : x.kind = "error"

\* C11: the message sequence handed to the LLM in a turn is one system message
\* holding the prompt, then the history the session had before the turn, in
\* its order and in full, then the current user message once, as last element
C11_LLMMessageOrder ==
    (last.op = "question" /\ last.file # None)
        => last.llm_messages =
               << [role |-> "SystemMessage", content |-> last.prompt] >>
               \o last.history
               \o << HumanMessage(last.query) >>

\* the least t with t * d >= n
CeilDiv(n, d) == CHOOSE t \in 0..n : t * d >= n /\ (t = 0 \/ (t - 1) * d < n)

IsCallback(e) == e[1] = "callback"

\* C12: a process_document run over n chunks that embeds every batch calls
\* progress_callback exactly ceil(n/64) times, with (1,total), ..., (total,total)
\* in that order, each call right after its batch was embedded, before the
\* next batch is embedded and before the chunks are added to the store
C12_CallbackPerBatchInOrder ==
    (last.op = "process_document"
        /\ last.raised \notin {"LoadError", "EmbeddingError"})
        => LET total == CeilDiv(last.chunks, 64)
               log == last.log
           IN  /\ SelectSeq(log, IsCallback)
                     = [i \in 1..total |-> <<"callback", i, total>>]
               /\ \A k \in 1..Len(log) :
                     /\ IsCallback(log[k])
                           => (k > 1 /\ log[k - 1] = <<"embed", log[k][2]>>)
                     /\ (log[k][1] = "embed" /\ log[k][2] > 1)
                           => log[k - 1] = <<"callback", log[k][2] - 1, total>>
                     /\ log[k] = <<"add">>
                           => \A j \in k..Len(log) : ~IsCallback(log[j])

\* C12 witness: a document of two batches was processed to the end
C12_Witness ==
    /\ last.op = "process_document"
    /\ last.raised = "none"
    /\ last.chunks > 64
    /\ Len(SelectSeq(last.log, IsCallback)) = 2
    /\ last.log[Len(last.log)] = <<"add">>

\* the tokens of a text
Tokens(text) == {text[i] : i \in 1..Len(text)}

\* C13: when answering a question fails, nothing shown to the user and nothing
\* stored in the message history or returned as the answer holds the text of
\* the exception; the user gets the generic apology only
C13_NoExceptionTextToUser ==
    /\ (last.op = "question" /\ last.raised # "none")
          => /\ \A x \in last.shown : x.exc = "none"
             /\ messages[last.session][Len(messages[last.session])]
                   = AIMessage(AppFallback)
    /\ (last.op = "query_document" /\ (last.query_failing \/ last.llm_failing))
          => "str(e)" \notin Tokens(last.result)
    /\ (last.op = "chat" /\ (last.query_failing \/ last.llm_failing))
          => last.result = BackendFallback

\* C15: process_and_store_document returns a document id that depends on the
\* file bytes only, and after it the metadata holds that id; a call with
\* bytes already stored returns the same id and changes nothing
C15_DocIdFromBytes ==
    [][ last'.op = "process_and_store_document"
            => /\ last'.raised = "none"
               /\ last'.doc_id = md5(last'.content)
               /\ last'.doc_id \in DOMAIN docs_metadata'
               /\ last'.doc_id \in DOMAIN docs_metadata
                     => (docs_metadata' = docs_metadata
                         /\ doc_collections' = doc_collections) ]_vars

\* C14: after a process_document call that raised (upload or Load Chat), the
\* session has no document loaded; a session gets a document loaded only by a
\* process_document call that returned; and a question asked while no
\* document is loaded is not answered
C14_FailedProcessingNotLoaded ==
    [][ /\ (last'.op \in {"process_document", "load_chat"}
                /\ last'.raised # "none")
            => current_file_name'[last'.session] = None
        /\ \A s \in sessions :
              (current_file_name'[s] # None
                  /\ current_file_name'[s] # current_file_name[s])
              => /\ last'.op \in {"process_document", "load_chat"}
                 /\ last'.session = s
                 /\ last'.file = current_file_name'[s]
                 /\ last'.raised = "none"
        /\ (last'.op = "question" /\ current_file_name[last'.session] = None)
            => (~last'.queried /\ last'.llm_calls = 0 /\ messages' = messages)
      ]_vars

\* C14 witness: Load Chat failed to process its document in a session that
\* had another document loaded; the chat was loaded, no document is
C14_Witness ==
    /\ last.op = "load_chat"
    /\ last.raised # "none"
    /\ last.before # None
    /\ messages[last.session] # <<>>
    /\ current_file_name[last.session] = None

\* C16: when the store already holds chunks and no forced reindex is asked for,
\* load_and_index_documents and load_documents return True without chunking,
\* embedding or changing the store; with force_reload the documents are
\* chunked again and, when the call returns True, their chunks are in the store
C16_IndexedStoreSkipsWork ==
    [][ /\ (last'.op \in {"load_documents", "load_and_index_documents"}
                /\ ~last'.force_reload
                /\ get_document_count(vector_store) > 0)
            => /\ last'.returned = "True"
               /\ last'.log = <<>>
               /\ vector_store' = vector_store
        /\ (last'.op = "load_and_index_documents" /\ last'.force_reload)
            => /\ last'.log # <<>>
               /\ last'.log[1] = "load_and_split"
               /\ last'.returned = "True"
                     => (load_and_split(data) # {}
                         /\ load_and_split(data) \subseteq vector_store')
      ]_vars

\* C16 witness: indexing was asked for, not forced, on a store holding chunks
C16_Witness ==
    /\ last.op = "load_and_index_documents"
    /\ ~last.force_reload
    /\ last.kept # {}
    /\ last.returned = "True"
    /\ \E f \in FileNames : data[f] # None

\* C20: get_rag_instance returns the instance it holds until reset_rag_system;
\* reset_rag_system empties the vector store and drops the instance; the next
\* get_rag_instance that returns gives a new instance
C20_SingletonUntilReset ==
    [][ /\ (last'.op = "get_rag_instance" /\ rag_instance # None)
            => (last'.returned = rag_instance /\ rag_instance' = rag_instance)
        /\ (last'.op = "reset_rag_system" /\ rag_instance # None)
            => (last'.raised = "none" /\ rag_instance' = None
                /\ vector_store' = {})
        /\ (last'.op = "get_rag_instance" /\ rag_instance = None
                /\ last'.raised = "none")
            => (rag_instance' # None /\ rag_instance' = last'.returned
                /\ rag_instance' = ObjectName[objects'] /\ objects' = objects + 1)
      ]_vars

\* the operations that chunk a text with a splitter
ChunkerOps ==
    {"process_text_content_to_chunks", "load_and_split", "DocumentLoader",
     "RAGSystem"}

\* C17: for every text and every 0 < chunk_overlap < chunk_size, each chunk a
\* splitter configuration produces has a length of at most chunk_size
C17_ChunkLengthAtMostChunkSize ==
    (/\ last.op \in ChunkerOps
     /\ last.used # <<>>
     /\ 0 < last.used[2]
     /\ last.used[2] < last.used[1])
        => \A i \in DOMAIN last.page_contents :
              Len(last.page_contents[i]) <= last.used[1]

\* the chunk_size and chunk_overlap a call asks for: the arguments, or the
\* environment and the defaults where the function reads them
Requested(c) ==
    CASE c.fn = "process_text_content_to_chunks" ->
             << getenv(c.env, "CHUNK_SIZE", 1500),
                getenv(c.env, "CHUNK_OVERLAP", 200) >>
      [] c.fn = "load_and_split" ->
             << IF c.chunk_size = <<>> THEN getenv(c.env, "CHUNK_SIZE", 1000)
                ELSE c.chunk_size[1],
                IF c.chunk_overlap = <<>> THEN getenv(c.env, "CHUNK_OVERLAP", 200)
                ELSE c.chunk_overlap[1] >>
      [] c.fn = "DocumentLoader" ->
             << arg_or_default(c.chunk_size, 1000),
                arg_or_default(c.chunk_overlap, 200) >>
      [] OTHER -> << 1500, 200 >>

\* chunk_overlap >= chunk_size, or one of them is not positive
BadConfig(c) ==
    \/ Requested(c)[2] >= Requested(c)[1]
    \/ Requested(c)[1] <= 0
    \/ Requested(c)[2] <= 0

\* C18: chunking with chunk_overlap >= chunk_size, or with a chunk_size or
\* chunk_overlap that is not positive, fails with a configuration error,
\* produces no chunks and uses no other values
C18_BadConfigFails ==
    (/\ last.op \in {"process_text_content_to_chunks", "load_and_split",
                     "DocumentLoader"}
     /\ BadConfig(call))
        => /\ last.raised = "ValueError"
           /\ last.page_contents = <<>>
           /\ last.used = <<>>

\* the positions of the events of one kind in the log of a process_document run
LogPositions(kind) == {i \in DOMAIN last.log : last.log[i][1] = kind}

\* C21: within one process_document run every batch is embedded first, then
\* the prior chunks are deleted, then all new chunks are inserted by a single
\* add call
C21_EmbedThenDeleteThenAdd ==
    last.op \in {"process_document", "load_chat"}
        => /\ \A e \in LogPositions("embed"), d \in LogPositions("delete") : e < d
           /\ \A d \in LogPositions("delete"), a \in LogPositions("add") : d < a
           /\ \A e \in LogPositions("embed"), a \in LogPositions("add") : e < a
           /\ Cardinality(LogPositions("add")) <= 1

\* C22: no two stored entries share a chunk id, and after a process_document
\* run for file f that produced n chunks the stored ids are exactly
\* f_0 .. f_(n-1), the entry f_i carrying chunk_index i and source_file f
C22_UniqueIdsExactIndex ==
    /\ \A r1, r2 \in collection : r1.id = r2.id => r1 = r2
    /\ (/\ last.op \in {"process_document", "load_chat"}
        /\ last.raised = "none"
        /\ last.chunks >= 0)
           => /\ Ids(collection) = {<<last.file, i>> : i \in 0..(last.chunks - 1)}
              /\ \A r \in collection :
                    r.source_file = last.file /\ r.chunk_index = r.id[2]

\* C23: with the one RAGSystem shared by several sessions, the passages
\* retrieved for a question of a session are passages of the document that
\* session shows as loaded
C23_QuestionGroundedInOwnDocument ==
    (last.op = "question" /\ last.file # None)
        => \A i \in DOMAIN last.passage_ids : last.passage_ids[i][1] = last.file

\* C24: after process_document failed for an uploaded file, the run that
\* st.rerun() asked for does not call process_document again
C24_NoReprocessAfterFailure ==
    [][(/\ last.op = "process_document"
        /\ last.raised # "none"
        /\ rerun[last.session])
           => last'.op # "process_document"]_vars

\* a history that starts with a user message and alternates user, assistant
Alternates(history) ==
    \A i \in DOMAIN history :
        history[i].role = IF i % 2 = 1 THEN "HumanMessage" ELSE "AIMessage"

\* a question handled with a document loaded appends the user message and
\* then one assistant message: the answer, or the fallback text
QuestionAppendsTwo ==
    (last'.op = "question" /\ last'.file # None)
        => \E answer \in {last'.result, AppFallback} :
              messages'[last'.session] =
                  messages[last'.session]
                  \o << HumanMessage(last'.query), AIMessage(answer) >>

C28_NoInstanceAfterFailedInit ==
    (last.op = "get_rag_instance" /\ last.before = None /\ last.raised # "none")
        => rag_instance = None

\* C29: after Load Chat the messages in the session belong to the active
\* document: whenever the messages of a saved chat are loaded,
\* current_file_name equals that chat's document_name and that document is
\* the one indexed
C29_LoadedChatBelongsToActiveDocument ==
    last.op = "load_chat"
        => /\ current_file_name[last.session] = last.file
           /\ rag_current_file_name = last.file

\* the messages a chat file holds, as line 169 builds them
loaded_messages(chat_data) ==
    [i \in 1..Len(chat_data.messages) |-> from_json(chat_data.messages[i])]

\* Save Current Chat writes a file from which line 169 builds the messages
\* of the session again
SaveWritesHistory ==
    last'.op = "save_chat"
        => /\ last'.chat \in DOMAIN chats'
           /\ loaded_messages(chats'[last'.chat]) = messages[last'.session]

\* Load Chat puts the messages of the selected file into the session
LoadRestoresHistory ==
    last'.op = "load_chat"
        => messages'[last'.session] = loaded_messages(chats[last'.chat])

\* the run that the st.rerun() of Load Chat asked for keeps the loaded messages
RerunKeepsLoadedHistory ==
    (last.op = "load_chat" /\ rerun[last.session])
        => messages'[last.session] = messages[last.session]

\* C30: saving the current chat and loading that file back restores the same
\* message sequence: same length, same order, same content, and the same
\* kind (user or assistant) for every message
C30_SaveLoadRoundTrip ==
    [][SaveWritesHistory /\ LoadRestoresHistory /\ RerunKeepsLoadedHistory]_vars

\* the number of entries of a list that equal x
Count(list, x) == Cardinality({i \in DOMAIN list : list[i] = x})

\* C27: once every save_message call has returned, each message passed to
\* save_message is in the persisted history of its document, as many times as
\* it was passed, whether the calls were made for the same document or for
\* different ones
C27_ConcurrentSavesKeepEveryMessage ==
    (\A c \in sessions : save_calls[c].pc = "idle") =>
        \A i \in DOMAIN passed :
            Count(histories_get(chat_histories, passed[i][1]), passed[i][2])
                >= Count(passed, passed[i])

\* the persisted chat history of the document active in session s
persisted_history(s) ==
    IF active_doc_id[s] = <<>>
    THEN <<>>
    ELSE get_chat_history(chat_histories, active_doc_id[s][1])

\* C26: a script run of frontend/app.py that finds an event in its widgets
\* (an upload, a document switch, a question, a click on Clear Current Chat)
\* handles it, and when the run ends the session's message list equals the
\* persisted chat history of the active document
C26_MessagesEqualPersistedHistory ==
    (last.op = "frontend_run" /\ last.event # "none") =>
        /\ last.handled = last.event
        /\ session_messages[last.session] = persisted_history(last.session)

====
